---- MODULE Spec2Model ----
(***************************************************************************)
(* Real-time collaboration core of the whiteboard backend:                 *)
(*   app/websocket/connection_manager.py  (ConnectionManager)              *)
(*   app/websocket/handlers.py            (frame handlers)                 *)
(*   app/messaging/nats_client.py         (NATSClientManager)              *)
(*   app/permissions.py                   (access policy)                  *)
(*   app/main.py                          (websocket_endpoint)             *)
(*                                                                         *)
(* Every connection is served by one asyncio task running                  *)
(* websocket_endpoint.  Tasks interleave only at awaits that really        *)
(* suspend (socket sends/receives, bus calls, database reads); the code    *)
(* between two such awaits is one action.  The registry lock is never held *)
(* across a suspending await (_leave_whiteboard_internal contains none),   *)
(* so each locked section is a single action.                              *)
(***************************************************************************)
EXTENDS Integers, FiniteSets, Sequences, Bags, TLC

\* ---------------------------------------------------------------- bounds
\* frames the clients may send after their handshakes, all connections together
MaxFrames == 3
\* connections on which manager.disconnect may be called a second time
MaxRepeatedDisconnects == 1
\* calls the routers and other outside callers make to the bridge
MaxBridgeCalls == 4
\* entries of a whiteboard's share list
MaxShares == 2

\* ------------------------------------------------------------- universe
None == "None"

\* transports (UserConnection identity is id(websocket))
Conns == {"c1", "c2"}

Users == {"alice", "bob"}

\* the users a transport's token may name: c2 is a second session of alice
\* or a session of bob
TokenUsers(c) == IF c = "c1" THEN {"alice"} ELSE Users

\* the transport whose client also sends frames the handlers reject or drop;
\* the handlers treat every connection alike, so one such client is enough
FaultyClients == {"c2"}

\* the users broadcast_to_user is called for: the one who may have two sessions
AddressedUsers == {"alice"}

Whiteboards == {"W1", "W2"}

\* cursor positions a client may report
CursorInputs == {<<12, 34>>}
Origin == <<0, 0>>

\* rows of the whiteboards table with their shares loaded
WhiteboardStore ==
    [W1 |-> [owner_id |-> "alice", access_type |-> "private", shared_with |-> <<>>],
     W2 |-> [owner_id |-> "alice", access_type |-> "shared",
             shared_with |-> <<[user_id |-> "bob", permission |-> "read"]>>],
     W3 |-> [owner_id |-> "bob", access_type |-> "public", shared_with |-> <<>>]]

\* ------------------------------------------------------- access policy
RECURSIVE SharePermission(_, _)
SharePermission(shares, user_id) ==
    IF shares = <<>> THEN None
    ELSE IF Head(shares).user_id = user_id THEN Head(shares).permission
    ELSE SharePermission(Tail(shares), user_id)

\* faulty policy: share entries count whatever the access type
get_user_permission_SharesAlways(whiteboard, user_id) ==
    IF whiteboard.owner_id = user_id THEN "admin"
    ELSE IF whiteboard.access_type = "public" THEN "write"
    ELSE SharePermission(whiteboard.shared_with, user_id)

get_user_permission(whiteboard, user_id) ==
    IF whiteboard.owner_id = user_id THEN "admin"
    ELSE IF whiteboard.access_type = "public" THEN "write"
    ELSE IF whiteboard.access_type = "shared"
         THEN SharePermission(whiteboard.shared_with, user_id)
    ELSE None

has_whiteboard_read_access(whiteboard_id, user_id) ==
    /\ whiteboard_id \in DOMAIN WhiteboardStore
    /\ get_user_permission(WhiteboardStore[whiteboard_id], user_id) # None

\* ------------------------------------------------------- bus subjects
whiteboard_subject(w) == <<"whiteboard", w>>
notifications_subject(u) == <<"notifications", u>>
presence_subject == <<"presence.updates">>
whiteboards_global == <<"whiteboards.global">>

\* the whiteboard of a whiteboard subject, None for the other subjects
SubjectWhiteboard(subject) == IF subject[1] = "whiteboard" THEN subject[2] ELSE None

\* the subjects the registry subscribes to
Subjects ==
    {whiteboard_subject(w) : w \in Whiteboards}
        \cup {notifications_subject(u) : u \in Users}
        \cup {presence_subject, whiteboards_global}

VARIABLES
    connections,            \* _connections: user id -> set of connections
    whiteboard_viewers,     \* _whiteboard_viewers: whiteboard id -> set of connections
    user_id,                \* UserConnection.user_id
    current_whiteboard_id,  \* UserConnection.current_whiteboard_id
    cursor,                 \* UserConnection.(cursor_x, cursor_y)
    nats_connected,         \* NATSClientManager._connected (and _client set)
    client_raises,          \* the bus client's calls raise (connection lost or draining)
    handlers,               \* NATSClientManager._handlers, a bag of closures
    subscriptions,          \* NATSClientManager._subscriptions (its keys)
    published,              \* subjects the bus client has accepted a message for
    pc,                     \* position of each connection's endpoint task
    arg,                    \* payload of the frame being handled
    frames,                 \* frames received so far
    sent,                   \* the events the last step tried to send
    emitted,                \* event types sent by each connection's current operation
    online_users,           \* broadcast_presence_update's local list, per task
    departure,              \* what _leave_whiteboard_internal removed in the current operation
    received,               \* the frame the last step took from a transport
    link,                   \* the bus client's transport: up, down (reconnecting) or closed
    bridge_call,            \* the last call made to the bridge from outside the registry
    request,                \* the CRUD request being served
    query,                  \* a call of get_user_permission: its arguments and result
    dispatch,               \* message_handler's loop over the handlers of a subject
    lock                    \* ConnectionManager._lock: the connection whose task holds it

vars == <<connections, whiteboard_viewers, user_id, current_whiteboard_id, cursor,
          nats_connected, client_raises, handlers, subscriptions, published, pc, arg, frames,
          sent, emitted, online_users, departure, received, link, bridge_call, request,
          query, dispatch, lock>>

registry == <<connections, whiteboard_viewers, user_id, current_whiteboard_id, cursor>>
bridge == <<nats_connected, client_raises, handlers, subscriptions>>

\* the state of the websocket endpoints and the registry
realtime == <<connections, whiteboard_viewers, user_id, current_whiteboard_id, cursor, pc,
              arg, frames, sent, emitted, online_users, departure, received>>

\* the state only the bridge's other callers, the routers and the policy touch
standalone == <<link, bridge_call, request, query, dispatch, lock>>

\* ------------------------------------------------------ dict helpers
DictGet(d, k) == IF k \in DOMAIN d THEN d[k] ELSE {}

DictDel(d, k) == [x \in DOMAIN d \ {k} |-> d[x]]

\* faulty add: the set of the key is replaced
DictAdd_Replace(d, k, c) == [x \in DOMAIN d \cup {k} |-> IF x = k THEN {c} ELSE d[x]]

\* setdefault(k, set()).add(c)
DictAdd(d, k, c) == [x \in DOMAIN d \cup {k} |-> IF x = k THEN DictGet(d, k) \cup {c} ELSE d[x]]

\* faulty discard: the key stays when its set becomes empty
DictDiscard_KeepKey(d, k, c) ==
    IF k \notin DOMAIN d THEN d ELSE [d EXCEPT ![k] = @ \ {c}]

\* discard c from d[k] and delete the key when the set becomes empty
DictDiscard(d, k, c) ==
    IF k \notin DOMAIN d THEN d
    ELSE IF d[k] \ {c} = {} THEN DictDel(d, k)
    ELSE [d EXCEPT ![k] = @ \ {c}]


\* ------------------------------------------------- registry: pure parts
\* faulty selection: every registered connection, whatever it is viewing
BroadcastToWhiteboardTargets_AllRegistered(w, exclude) ==
    {conn \in UNION {connections[u] : u \in DOMAIN connections} : conn # exclude}

\* the connections a broadcast to whiteboard w selects
BroadcastToWhiteboardTargets(w, exclude) ==
    {conn \in DictGet(whiteboard_viewers, w) : conn # exclude}

BroadcastToUserTargets(u) == DictGet(connections, u)

\* registered transports on which a send has raised: every later send to
\* them raises too
FailedTransports == {conn \in Conns : pc[conn] \in {"disc", "leaked"}}

\* faulty fan-out: the sends are abandoned at the first one that raises
BroadcastToAllTargets_StopAtFailure(exclude) ==
    LET all == {conn \in UNION {connections[u] : u \in DOMAIN connections} : conn # exclude}
    IN  IF all \cap FailedTransports # {} THEN all \cap FailedTransports ELSE all

BroadcastToAllTargets(exclude) ==
    {conn \in UNION {connections[u] : u \in DOMAIN connections} : conn # exclude}

\* ids of the users with a registered session, one entry per user
get_online_users ==
    {u \in DOMAIN connections : connections[u] # {}}

\* the viewer lists get_whiteboard_viewers may return: one entry per user id,
\* carrying the cursor of whichever of the user's sessions the set yields first
get_whiteboard_viewers(w) ==
    LET vs == DictGet(whiteboard_viewers, w)
        us == {user_id[conn] : conn \in vs}
    IN  {l \in SUBSET {[id |-> user_id[conn], cursor |-> cursor[conn]] : conn \in vs} :
            \A u \in us : Cardinality({e \in l : e.id = u}) = 1}

\* the orders in which a loop may go through a set or the keys of a dict
IterationOrders(S) ==
    {order \in [1..Cardinality(S) -> S] :
        \A i, j \in 1..Cardinality(S) : order[i] = order[j] => i = j}

\* the loop of get_online_users over the items of _connections taken in the
\* given order of keys: the list of user ids it builds
RECURSIVE OnlineUsersLoop(_, _, _)
OnlineUsersLoop(order, seen_ids, users) ==
    IF order = << >> THEN users
    ELSE LET u == Head(order)
         IN  IF u \notin seen_ids /\ connections[u] # {}
             THEN OnlineUsersLoop(Tail(order), seen_ids \cup {u}, Append(users, u))
             ELSE OnlineUsersLoop(Tail(order), seen_ids, users)

\* faulty loop: seen_ids is not consulted
ViewersLoop_NoSeenIds(order, seen_ids, viewers) ==
    [i \in 1..Len(order) |-> [id |-> user_id[order[i]], cursor |-> cursor[order[i]]]]

\* the loop of get_whiteboard_viewers over the viewer set taken in the given
\* order: the list of entries it builds
RECURSIVE ViewersLoop(_, _, _)
ViewersLoop(order, seen_ids, viewers) ==
    IF order = << >> THEN viewers
    ELSE LET conn == Head(order)
         IN  IF user_id[conn] \notin seen_ids
             THEN ViewersLoop(Tail(order), seen_ids \cup {user_id[conn]},
                              Append(viewers, [id |-> user_id[conn], cursor |-> cursor[conn]]))
             ELSE ViewersLoop(Tail(order), seen_ids, viewers)

\* faulty difference: a user counts as not viewing as soon as one of the
\* user's sessions is not viewing
get_users_not_viewing_whiteboard_AnySession(w) ==
    {u \in DOMAIN connections : \E conn \in connections[u] : current_whiteboard_id[conn] # w}

get_users_not_viewing_whiteboard(w) ==
    DOMAIN connections \ {user_id[conn] : conn \in DictGet(whiteboard_viewers, w)}

is_user_viewing_whiteboard(u, w) ==
    \E conn \in DictGet(connections, u) : current_whiteboard_id[conn] = w

\* faulty leave: current_whiteboard_id is cleared but the viewer set keeps c
LeaveInternalViewers_NoDiscard(c) == whiteboard_viewers

\* _leave_whiteboard_internal: the viewer index afterwards
LeaveInternalViewers(c) ==
    LET wid == current_whiteboard_id[c]
    IN  IF wid # None /\ wid \in DOMAIN whiteboard_viewers
        THEN DictDiscard(whiteboard_viewers, wid, c)
        ELSE whiteboard_viewers

\* _leave_whiteboard_internal: what it removed, and who stays behind
LeaveInternalDeparture(c) ==
    LET wid == current_whiteboard_id[c]
    IN  [wb |-> wid, remaining |-> DictGet(whiteboard_viewers, wid) \ {c}]

\* nothing was removed
NoDeparture == [wb |-> None, remaining |-> {}]

\* faulty join: the previous whiteboard is not left
JoinViewers_NoLeave(c, w) == DictAdd(whiteboard_viewers, w, c)

\* join_whiteboard, locked section: the viewer index afterwards
JoinViewers(c, w) ==
    LET left == IF current_whiteboard_id[c] # None
                THEN LeaveInternalViewers(c) ELSE whiteboard_viewers
    IN  DictAdd(left, w, c)

\* faulty connect: the registration is dropped when the bus client raises
ConnectConnections_UnlessBusRaises(c, u) ==
    IF client_raises THEN connections ELSE DictAdd(connections, u, c)

\* connect, locked section
ConnectConnections(c, u) == DictAdd(connections, u, c)

\* faulty disconnect: the user's key is deleted with all its sessions
DisconnectConnections_DropUser(c) == DictDel(connections, user_id[c])

\* disconnect, locked section: the user index afterwards
DisconnectConnections(c) == DictDiscard(connections, user_id[c], c)

\* faulty disconnect: the whiteboard being viewed is not left
DisconnectViewers_Keep(c) == whiteboard_viewers

\* disconnect, locked section: the viewer index afterwards
DisconnectViewers(c) ==
    IF current_whiteboard_id[c] # None THEN LeaveInternalViewers(c)
    ELSE whiteboard_viewers

\* ------------------------------------------------------- bridge: pure parts
Handler(subject, c, filter) == [subject |-> subject, conn |-> c, filter |-> filter]

\* _client is set: connect has succeeded once; close leaves the closed client
\* in place
ClientSet == nats_connected \/ link = "closed"

\* every call of the bus client raises: its connection is lost or draining,
\* or it was drained and closed
ClientRaises == client_raises \/ link = "closed"

\* NATSClientManager.subscribe on a bridge value br; the bus client is only
\* called for a subject that has no subscription yet
Subscribe(br, h) ==
    LET hs == br.handlers (+) SetToBag({h})
        calls == h.subject \notin br.subscriptions /\ ClientSet
    IN  IF calls /\ ClientRaises
        THEN [handlers |-> hs, subscriptions |-> br.subscriptions, raised |-> TRUE,
              called |-> TRUE]
        ELSE [handlers |-> hs,
              subscriptions |-> IF calls THEN br.subscriptions \cup {h.subject}
                                ELSE br.subscriptions,
              raised |-> FALSE, called |-> br.called \/ calls]

\* _setup_user_subscriptions: three subscribes, abandoned at the first that raises
SetupUserSubscriptions(br, c, u) ==
    LET s1 == Subscribe(br, Handler(notifications_subject(u), c, None))
        s2 == IF s1.raised THEN s1
              ELSE Subscribe(s1, Handler(presence_subject, c, None))
        s3 == IF s2.raised THEN s2
              ELSE Subscribe(s2, Handler(whiteboards_global, c, None))
    IN  s3

\* _subscribe_to_whiteboard: the handler forwards only while c views w
SubscribeToWhiteboard(br, c, w) ==
    Subscribe(br, Handler(whiteboard_subject(w), c, w))

\* faulty dispatch: the whiteboard handlers forward whatever their connection
\* is viewing
ForwardingHandlers_Unfiltered(subject) ==
    LET hs == {h \in BagToSet(handlers) : h.subject = subject}
    IN  [h \in hs |-> handlers[h]]

\* the handlers of a subject that forward a message arriving now, as a bag
ForwardingHandlers(subject) ==
    LET hs == {h \in BagToSet(handlers) :
                  /\ h.subject = subject
                  /\ (h.filter = None \/ current_whiteboard_id[h.conn] = h.filter)}
    IN  [h \in hs |-> handlers[h]]

\* the connections message_handler sends to when a message arrives on subject
DispatchTargets(subject) == {h.conn : h \in DOMAIN ForwardingHandlers(subject)}

\* NATSClientManager.publish: the subjects handed to the bus afterwards
Publish(subject) ==
    IF nats_connected /\ ~client_raises
    THEN published \cup {subject}
    ELSE published

\* ------------------------------------------------------------- events
\* code: error code; users: a presence list, or the user a broadcast_to_user
\* addresses; viewers: a viewer list
\* exclude: the connection a broadcast was told to skip
Event(type, via, origin, exclude, to, wb, code, users, viewers) ==
    [type |-> type, via |-> via, origin |-> origin, exclude |-> exclude, to |-> to,
     wb |-> wb, code |-> code, users |-> users, viewers |-> viewers]

\* a frame taken from transport c; kind is its type or what is wrong with it
Frame(c, kind) == [conn |-> c, kind |-> kind]

\* the last step took no frame
NoFrame == Frame(None, None)

\* the bridge as the value Subscribe works on
Bridge == [handlers |-> handlers, subscriptions |-> subscriptions, raised |-> FALSE,
           called |-> FALSE]

\* a call of the bridge: n counts the calls, connected and link are the
\* bridge's _connected and the transport's state when the call was made,
\* invoked tells whether the bus client was called, failed whether something
\* raised inside the call, returned how the call ended for its caller
Call(n, op, subject, invoked, failed, returned) ==
    [n |-> n, op |-> op, subject |-> subject, connected |-> nats_connected, link |-> link,
     invoked |-> invoked, failed |-> failed, returned |-> returned]

\* a call or a CRUD event without subject
NoSubject == << >>

\* no call yet
NoCall ==
    [n |-> 0, op |-> None, subject |-> NoSubject, connected |-> FALSE, link |-> "up",
     invoked |-> FALSE, failed |-> FALSE, returned |-> None]

\* a CRUD request: status is the response's, effect what became of its change
\* (none, flushed, committed), task the state of its background broadcast
Request(op, u, w, access, status, effect, task) ==
    [op |-> op, user |-> u, wb |-> w, access |-> access, status |-> status,
     effect |-> effect, task |-> task]

NoRequest == Request(None, None, None, None, None, "none", "none")

\* get_user_permission(whiteboard, user_id) and what it returned
Query(whiteboard, u, permission) ==
    [whiteboard |-> whiteboard, user_id |-> u, permission |-> permission]

NoQuery == Query(None, None, "unset")

\* message_handler before a message arrived.  The record of its loop holds the
\* subject, the size the set iterator saw when the loop began, the handlers
\* registered ever since, the handlers called so far, how far the loop is
\* (idle, running, done, or aborted by an exception that left
\* message_handler), and the set object it iterates over
NoDispatch ==
    [subject |-> NoSubject, size |-> 0, stayed |-> EmptyBag, invoked |-> EmptyBag,
     status |-> "idle", set |-> EmptyBag, attached |-> FALSE]


\* ------------------------------------------------------------- initial state
Init ==
    /\ connections = << >>
    /\ whiteboard_viewers = << >>
    /\ user_id = [c \in Conns |-> None]
    /\ current_whiteboard_id = [c \in Conns |-> None]
    /\ cursor = [c \in Conns |-> Origin]
    /\ nats_connected \in BOOLEAN
    /\ client_raises \in {r \in BOOLEAN : r => nats_connected}
    /\ handlers = EmptyBag
    /\ subscriptions = {}
    /\ published = {}
    /\ pc = [c \in Conns |-> "accept"]
    /\ arg = [c \in Conns |-> None]
    /\ frames = 0
    /\ sent = {}
    /\ emitted = [c \in Conns |-> {}]
    /\ online_users = [c \in Conns |-> {}]
    /\ departure = [c \in Conns |-> NoDeparture]
    /\ received = NoFrame
    /\ link = "up"
    /\ bridge_call = NoCall
    /\ request = NoRequest
    /\ query = NoQuery
    /\ dispatch = NoDispatch
    /\ lock = None

\* faulty handshake: a first frame of another type is answered invalid_token
RejectedFirstFrames_NoAuthRequired ==
    [not_json |-> None, not_object |-> None,
     not_auth |-> "invalid_token", no_token |-> "invalid_token",
     bad_token |-> "invalid_token", no_sub |-> None, bad_sub |-> None,
     no_user |-> None]

\* first frames that end the handshake without registration, with the error
\* frame sent before the close (None: closed without an error frame).
\* not_json: receive_json raises; not_object: the frame is JSON but no object
\* and auth_data.get raises out of the endpoint
RejectedFirstFrames ==
    [not_json |-> None, not_object |-> None,
     not_auth |-> "auth_required", no_token |-> "invalid_token",
     bad_token |-> "invalid_token", no_sub |-> None, bad_sub |-> None,
     no_user |-> None]

\* ------------------------------------------------------------- presence
\* faulty presence broadcast: the direct broadcast is a fallback, made only
\* when the bridge is not connected
PresenceEvent_OnlyWithoutBus(c, users) ==
    Event("presence_update", "all", c, None,
          IF nats_connected THEN {} ELSE BroadcastToAllTargets(None), None, None, users, {})

\* broadcast_presence_update: the direct broadcast_to_all of the list users
PresenceEvent(c, users) ==
    Event("presence_update", "all", c, None, BroadcastToAllTargets(None), None, None,
          users, {})

\* broadcast_presence_update entered in the step that changed the registry:
\* with a connected bridge the task may be suspended in the bus publish, the
\* list already computed; otherwise the direct broadcast follows at once
PresenceStarts(c, suspended, done) ==
    /\ published' = Publish(presence_subject)
    /\ IF nats_connected
       THEN /\ online_users' = [online_users EXCEPT ![c] = get_online_users']
            /\ pc' = [pc EXCEPT ![c] = suspended]
            /\ sent' = {}
            /\ emitted' = [emitted EXCEPT ![c] = {}]
       ELSE /\ UNCHANGED online_users
            /\ \E to \in done : pc' = [pc EXCEPT ![c] = to]
            /\ sent' = {PresenceEvent(c, get_online_users)'}
            /\ emitted' = [emitted EXCEPT ![c] = {"presence_update"}]

\* broadcast_presence_update resumed after the bus publish
PresenceResumes(c, done) ==
    /\ sent' = {PresenceEvent(c, online_users[c])}
    /\ emitted' = [emitted EXCEPT ![c] = @ \cup {"presence_update"}]
    /\ online_users' = [online_users EXCEPT ![c] = {}]
    /\ \E to \in done : pc' = [pc EXCEPT ![c] = to]
    /\ received' = NoFrame
    /\ UNCHANGED <<registry, bridge, published, arg, frames, departure>>

\* ------------------------------------------------------------- handshake
\* faulty handshake: the connection is registered before the token is checked
HandshakeReject_Registers(c) ==
    /\ pc[c] = "accept"
    /\ \E f \in DOMAIN RejectedFirstFrames :
          /\ received' = Frame(c, f)
          /\ sent' = IF RejectedFirstFrames[f] = None THEN {}
                     ELSE {Event("error", "direct", c, None, {c}, None,
                                 RejectedFirstFrames[f], {}, {})}
    /\ pc' = [pc EXCEPT ![c] = "rejected"]
    /\ connections' = DictAdd(connections, "alice", c)
    /\ UNCHANGED <<whiteboard_viewers, user_id, current_whiteboard_id, cursor, bridge,
                   published, arg, frames, emitted, online_users, departure>>
    /\ UNCHANGED standalone

\* websocket_endpoint up to a return before registration
HandshakeReject(c) ==
    /\ pc[c] = "accept"
    /\ \E f \in DOMAIN RejectedFirstFrames :
          /\ received' = Frame(c, f)
          /\ sent' = IF RejectedFirstFrames[f] = None THEN {}
                     ELSE {Event("error", "direct", c, None, {c}, None,
                                 RejectedFirstFrames[f], {}, {})}
    /\ pc' = [pc EXCEPT ![c] = "rejected"]
    /\ UNCHANGED <<registry, bridge, published, arg, frames, emitted, online_users,
                   departure>>
    /\ UNCHANGED standalone

\* where websocket_endpoint stands after manager.connect: the auth_success
\* send succeeds, or raises outside the try block and the endpoint is left
AfterConnect == {"loop", "leaked"}

\* websocket_endpoint with a valid auth frame: manager.connect registers the
\* connection and sets up its subscriptions, then starts the presence broadcast
HandshakeConnect(c) ==
    /\ pc[c] = "accept"
    /\ received' = Frame(c, "auth")
    /\ \E u \in TokenUsers(c) :
          LET br == SetupUserSubscriptions(Bridge, c, u)
          IN  /\ user_id' = [user_id EXCEPT ![c] = u]
              /\ connections' = ConnectConnections(c, u)
              /\ handlers' = br.handlers
              /\ subscriptions' = br.subscriptions
              /\ UNCHANGED <<whiteboard_viewers, current_whiteboard_id, cursor,
                             nats_connected, client_raises, arg, frames, departure>>
              /\ IF br.called
                 THEN /\ pc' = [pc EXCEPT ![c] = "conn_pres"]
                      /\ sent' = {}
                      /\ UNCHANGED <<published, online_users, emitted>>
                 ELSE PresenceStarts(c, "conn_fanout", AfterConnect)
    /\ UNCHANGED standalone

\* manager.connect resumed after a bus subscribe: the presence broadcast starts
ConnectPresence(c) ==
    /\ pc[c] = "conn_pres"
    /\ received' = NoFrame
    /\ UNCHANGED <<registry, bridge, arg, frames, departure>>
    /\ PresenceStarts(c, "conn_fanout", AfterConnect)
    /\ UNCHANGED standalone

\* end of manager.connect, then the auth_success reply
ConnectFanout(c) ==
    /\ pc[c] = "conn_fanout"
    /\ PresenceResumes(c, AfterConnect)
    /\ UNCHANGED standalone


\* ------------------------------------------------------------- frames
\* the handler returns to the receive loop: its locals are gone
OperationEnds(c) ==
    /\ arg' = [arg EXCEPT ![c] = None]
    /\ emitted' = [emitted EXCEPT ![c] = {}]
    /\ departure' = [departure EXCEPT ![c] = NoDeparture]

\* where the endpoint stands after a reply: back in the loop, or in the
\* finally clause when the send raised
AfterReply == {"loop", "disc"}

\* faulty notification: the joining connection is not excluded
UserJoinedEvent_ToAll(c, w, viewers) ==
    Event("user_joined", "whiteboard", c, None, BroadcastToWhiteboardTargets(w, None),
          w, None, {}, viewers)

\* manager.join_whiteboard: user_joined to the other viewers of w
UserJoinedEvent(c, w, viewers) ==
    Event("user_joined", "whiteboard", c, c, BroadcastToWhiteboardTargets(w, c), w,
          None, {}, viewers)

\* a join_whiteboard frame: handle_join_whiteboard enters manager.join_whiteboard,
\* which runs its locked section and subscribes; user_joined follows at once
\* unless the task is suspended in a bus subscribe
ReceiveJoin(c) ==
    /\ pc[c] = "loop"
    /\ frames < MaxFrames
    /\ received' = Frame(c, "join_whiteboard")
    /\ UNCHANGED <<connections, user_id, nats_connected, client_raises, published,
                   online_users>>
    /\ \E w \in Whiteboards :
          /\ whiteboard_viewers' = JoinViewers(c, w)
          /\ current_whiteboard_id' = [current_whiteboard_id EXCEPT ![c] = w]
          /\ cursor' = [cursor EXCEPT ![c] =
                           IF current_whiteboard_id[c] # None THEN Origin ELSE @]
          /\ arg' = [arg EXCEPT ![c] = w]
          /\ LET br == SubscribeToWhiteboard(Bridge, c, w)
             IN  /\ handlers' = br.handlers
                 /\ subscriptions' = br.subscriptions
                 /\ IF br.called
                    THEN /\ pc' = [pc EXCEPT ![c] = "join_bcast"]
                         /\ sent' = {}
                         /\ emitted' = [emitted EXCEPT ![c] = {}]
                    ELSE /\ pc' = [pc EXCEPT ![c] = "join_reply"]
                         /\ \E vl \in get_whiteboard_viewers(w)' :
                               sent' = {UserJoinedEvent(c, w, vl)'}
                         /\ emitted' = [emitted EXCEPT ![c] = {"user_joined"}]
    /\ departure' = [departure EXCEPT ![c] =
                        IF current_whiteboard_id[c] # None
                        THEN LeaveInternalDeparture(c) ELSE NoDeparture]
    /\ frames' = frames + 1
    /\ UNCHANGED standalone

\* faulty join: the implicit leave is announced to the whiteboard left
JoinBroadcast_WithUserLeft(c) ==
    /\ pc[c] = "join_bcast"
    /\ \E vl \in get_whiteboard_viewers(arg[c]) :
          sent' = {UserJoinedEvent(c, arg[c], vl)} \cup
                  {Event("user_left", "whiteboard", c, None, departure[c].remaining,
                         departure[c].wb, None, {}, {}) : x \in {departure[c].wb} \ {None}}
    /\ emitted' = [emitted EXCEPT ![c] = @ \cup {"user_joined"}]
    /\ pc' = [pc EXCEPT ![c] = "join_reply"]
    /\ received' = NoFrame
    /\ UNCHANGED <<registry, bridge, published, arg, frames, online_users, departure>>
    /\ UNCHANGED standalone

\* manager.join_whiteboard resumed after the bus subscribe
JoinBroadcast(c) ==
    /\ pc[c] = "join_bcast"
    /\ \E vl \in get_whiteboard_viewers(arg[c]) :
          sent' = {UserJoinedEvent(c, arg[c], vl)}
    /\ emitted' = [emitted EXCEPT ![c] = @ \cup {"user_joined"}]
    /\ pc' = [pc EXCEPT ![c] = "join_reply"]
    /\ received' = NoFrame
    /\ UNCHANGED <<registry, bridge, published, arg, frames, online_users, departure>>
    /\ UNCHANGED standalone

\* handle_join_whiteboard: the whiteboard_joined reply with the viewers read
\* after the broadcast
JoinReply(c) ==
    /\ pc[c] = "join_reply"
    /\ \E vl \in get_whiteboard_viewers(arg[c]) :
          sent' = {Event("whiteboard_joined", "direct", c, None, {c}, arg[c], None, {}, vl)}
    /\ \E to \in AfterReply : pc' = [pc EXCEPT ![c] = to]
    /\ OperationEnds(c)
    /\ received' = NoFrame
    /\ UNCHANGED <<registry, bridge, published, frames, online_users>>
    /\ UNCHANGED standalone

\* the whiteboard_left reply
LeaveReplyEvent(c) ==
    Event("whiteboard_left", "direct", c, None, {c}, None, None, {}, {})

\* faulty notification: user_left goes to every registered connection
UserLeftEvent_ToEveryone(c, w, viewers) ==
    Event("user_left", "whiteboard", c, None, BroadcastToAllTargets(None), w,
          None, {}, viewers)

\* manager.leave_whiteboard: user_left to the viewers of w
UserLeftEvent(c, w, viewers) ==
    Event("user_left", "whiteboard", c, None, BroadcastToWhiteboardTargets(w, None), w,
          None, {}, viewers)

\* a leave_whiteboard frame: manager.leave_whiteboard, then the reply
ReceiveLeave(c) ==
    /\ pc[c] = "loop"
    /\ frames < MaxFrames
    /\ received' = Frame(c, "leave_whiteboard")
    /\ \E whiteboard_id \in {current_whiteboard_id[c]} :
          IF whiteboard_id = None
          THEN /\ sent' = {LeaveReplyEvent(c)}
               /\ UNCHANGED registry
          ELSE /\ UNCHANGED <<connections, user_id>>
               /\ whiteboard_viewers' = LeaveInternalViewers(c)
               /\ current_whiteboard_id' = [current_whiteboard_id EXCEPT ![c] = None]
               /\ cursor' = [cursor EXCEPT ![c] = Origin]
               /\ \E vl \in get_whiteboard_viewers(whiteboard_id)' :
                     sent' = {UserLeftEvent(c, whiteboard_id, vl)', LeaveReplyEvent(c)}
    /\ frames' = frames + 1
    /\ \E to \in AfterReply : pc' = [pc EXCEPT ![c] = to]
    /\ OperationEnds(c)
    /\ UNCHANGED <<bridge, published, online_users>>
    /\ UNCHANGED standalone

\* faulty cursor broadcast: the sender is not excluded
CursorUpdateEvent_ToAll(c, w, xy) ==
    Event("cursor_update", "whiteboard", c, None, BroadcastToWhiteboardTargets(w, None), w,
          None, {}, {[id |-> user_id[c], cursor |-> xy]})

\* manager.update_cursor: cursor_update to the other viewers of w; the
\* payload's user id and position are carried in viewers
CursorUpdateEvent(c, w, xy) ==
    Event("cursor_update", "whiteboard", c, c, BroadcastToWhiteboardTargets(w, c), w,
          None, {}, {[id |-> user_id[c], cursor |-> xy]})

\* faulty loop: the next frame is read while join_whiteboard is suspended
ReceiveCursorMove_Concurrent(c) ==
    /\ pc[c] \in {"loop", "join_bcast"}
    /\ frames < MaxFrames
    /\ received' = Frame(c, "cursor_move")
    /\ \E xy \in CursorInputs :
          /\ cursor' = [cursor EXCEPT ![c] = xy]
          /\ sent' = IF current_whiteboard_id[c] # None
                     THEN {CursorUpdateEvent(c, current_whiteboard_id[c], xy)}
                     ELSE {}
    /\ frames' = frames + 1
    /\ UNCHANGED <<connections, whiteboard_viewers, user_id, current_whiteboard_id,
                   bridge, published, pc, online_users, arg, emitted, departure>>
    /\ UNCHANGED standalone

\* a cursor_move frame with numeric coordinates: manager.update_cursor
ReceiveCursorMove(c) ==
    /\ pc[c] = "loop"
    /\ frames < MaxFrames
    /\ received' = Frame(c, "cursor_move")
    /\ \E xy \in CursorInputs :
          /\ cursor' = [cursor EXCEPT ![c] = xy]
          /\ sent' = IF current_whiteboard_id[c] # None
                     THEN {CursorUpdateEvent(c, current_whiteboard_id[c], xy)}
                     ELSE {}
    /\ frames' = frames + 1
    /\ OperationEnds(c)
    /\ UNCHANGED <<connections, whiteboard_viewers, user_id, current_whiteboard_id,
                   bridge, published, pc, online_users>>
    /\ UNCHANGED standalone

\* a typed error frame sent to the connection itself
ErrorReply(c, code) == Event("error", "direct", c, None, {c}, None, code, {}, {})

\* a frame whose type is not in the handler table: handle_websocket_message
\* replies unknown_message_type
ReceiveUnknown(c) ==
    /\ pc[c] = "loop"
    /\ frames < MaxFrames
    /\ received' = Frame(c, "unknown_type")
    /\ sent' = {ErrorReply(c, "unknown_message_type")}
    /\ \E to \in AfterReply : pc' = [pc EXCEPT ![c] = to]
    /\ frames' = frames + 1
    /\ OperationEnds(c)
    /\ UNCHANGED <<registry, bridge, published, online_users>>
    /\ UNCHANGED standalone

\* faulty replies: the two error codes are exchanged
RejectedJoinFrames_Swapped ==
    [join_missing_id |-> "invalid_whiteboard_id", join_malformed_id |-> "missing_whiteboard_id"]

\* join_whiteboard frames handle_join_whiteboard rejects, with the error code
\* of its reply: no whiteboard_id, or a string that is not a UUID
RejectedJoinFrames ==
    [join_missing_id |-> "missing_whiteboard_id", join_malformed_id |-> "invalid_whiteboard_id"]

\* handle_join_whiteboard returning before manager.join_whiteboard
ReceiveRejectedJoin(c) ==
    /\ pc[c] = "loop"
    /\ frames < MaxFrames
    /\ \E f \in DOMAIN RejectedJoinFrames :
          /\ received' = Frame(c, f)
          /\ sent' = {ErrorReply(c, RejectedJoinFrames[f])}
    /\ \E to \in AfterReply : pc' = [pc EXCEPT ![c] = to]
    /\ frames' = frames + 1
    /\ OperationEnds(c)
    /\ UNCHANGED <<registry, bridge, published, online_users>>
    /\ UNCHANGED standalone

\* frames on which the dispatch or a handler raises before sending anything:
\* a frame that is not a JSON object (message.get raises), and a
\* join_whiteboard whose whiteboard_id is not a string (UUID() raises
\* AttributeError, which except ValueError does not catch)
IllShapedFrames == {"frame_not_object", "join_id_not_string"}

\* the exception reaches websocket_endpoint's except clause and the endpoint
\* goes to its finally clause
ReceiveIllShaped(c) ==
    /\ pc[c] = "loop"
    /\ frames < MaxFrames
    /\ \E f \in IllShapedFrames : received' = Frame(c, f)
    /\ sent' = {}
    /\ pc' = [pc EXCEPT ![c] = "disc"]
    /\ frames' = frames + 1
    /\ OperationEnds(c)
    /\ UNCHANGED <<registry, bridge, published, online_users>>
    /\ UNCHANGED standalone

\* a cursor_move frame whose x or y float() rejects: handle_cursor_move returns
ReceiveCursorMoveInvalid(c) ==
    /\ pc[c] = "loop"
    /\ frames < MaxFrames
    /\ received' = Frame(c, "cursor_move_non_numeric")
    /\ sent' = {}
    /\ frames' = frames + 1
    /\ OperationEnds(c)
    /\ UNCHANGED <<registry, bridge, published, pc, online_users>>
    /\ UNCHANGED standalone

\* note_position frames, and whether handle_note_position accepts them
NotePositionFrames ==
    [note_position |-> TRUE, note_position_missing_field |-> FALSE,
     note_position_non_numeric |-> FALSE]

\* faulty handler: the payload is not validated
NotePositionEvents_Unvalidated(c, valid) ==
    IF current_whiteboard_id[c] # None
    THEN {Event("note_position", "whiteboard", c, c,
                BroadcastToWhiteboardTargets(current_whiteboard_id[c], c),
                current_whiteboard_id[c], None, {}, {})}
    ELSE {}

\* handle_note_position: the broadcast to the other viewers of the sender's
\* whiteboard, if the payload is valid and the sender views one
NotePositionEvents(c, valid) ==
    IF valid /\ current_whiteboard_id[c] # None
    THEN {Event("note_position", "whiteboard", c, c,
                BroadcastToWhiteboardTargets(current_whiteboard_id[c], c),
                current_whiteboard_id[c], None, {}, {})}
    ELSE {}

\* a note_position frame
ReceiveNotePosition(c) ==
    /\ pc[c] = "loop"
    /\ frames < MaxFrames
    /\ \E f \in DOMAIN NotePositionFrames :
          /\ received' = Frame(c, f)
          /\ sent' = NotePositionEvents(c, NotePositionFrames[f])
    /\ frames' = frames + 1
    /\ OperationEnds(c)
    /\ UNCHANGED <<registry, bridge, published, pc, online_users>>
    /\ UNCHANGED standalone

\* ------------------------------------------------------------- disconnect
\* manager.disconnect: the locked section, then the presence broadcast starts
DisconnectLocked(c, suspended, done) ==
    /\ connections' = DisconnectConnections(c)
    /\ whiteboard_viewers' = DisconnectViewers(c)
    /\ current_whiteboard_id' = [current_whiteboard_id EXCEPT ![c] = None]
    /\ cursor' = [cursor EXCEPT ![c] = IF current_whiteboard_id[c] # None THEN Origin ELSE @]
    /\ departure' = [departure EXCEPT ![c] =
                        IF current_whiteboard_id[c] # None
                        THEN LeaveInternalDeparture(c) ELSE NoDeparture]
    /\ arg' = [arg EXCEPT ![c] = None]
    /\ received' = NoFrame
    /\ UNCHANGED <<user_id, bridge, frames>>
    /\ PresenceStarts(c, suspended, {done})

\* the transport closes or errors while the loop waits for a frame: the
\* finally clause of websocket_endpoint calls manager.disconnect
ReceiveClose(c) ==
    /\ pc[c] = "loop"
    /\ DisconnectLocked(c, "disc_fanout", "closed")
    /\ UNCHANGED standalone

\* the finally clause after a reply that raised
DisconnectAfterError(c) ==
    /\ pc[c] = "disc"
    /\ DisconnectLocked(c, "disc_fanout", "closed")
    /\ UNCHANGED standalone

\* manager.disconnect resumed after the bus publish
DisconnectFanout(c) ==
    /\ pc[c] = "disc_fanout"
    /\ PresenceResumes(c, {"closed"})
    /\ UNCHANGED standalone

\* manager.disconnect called again on a connection already disconnected
DisconnectAgain(c) ==
    /\ pc[c] = "closed"
    /\ Cardinality({d \in Conns : pc[d] \in {"redisc_fanout", "closed_twice"}})
          < MaxRepeatedDisconnects
    /\ DisconnectLocked(c, "redisc_fanout", "closed_twice")
    /\ UNCHANGED standalone

DisconnectAgainFanout(c) ==
    /\ pc[c] = "redisc_fanout"
    /\ PresenceResumes(c, {"closed_twice"})
    /\ UNCHANGED standalone

\* ------------------------------------------------------ direct broadcast
\* the last step was a delivery that left everything else as it was: a second
\* delivery right after it would find the same registry and bridge, so
\* deliveries are taken one at a time between steps of the tasks
JustDelivered == \E e \in sent : e.via \in {"bus", "user"}

\* broadcast_to_user called for a user with registered sessions
BroadcastToUser(u) ==
    /\ u \in DOMAIN connections
    /\ ~JustDelivered
    /\ sent' = {Event("message", "user", None, None, BroadcastToUserTargets(u), None,
                      None, {u}, {})}
    /\ received' = NoFrame
    /\ UNCHANGED <<registry, bridge, published, pc, arg, frames, emitted,
                   online_users, departure>>
    /\ UNCHANGED standalone

\* ------------------------------------------------------------- the bus
\* a message published by any backend process arrives on a subject this
\* process is subscribed to: message_handler calls every handler of the subject
MessageArrives(subject) ==
    /\ subject \in subscriptions
    /\ ~JustDelivered
    /\ sent' = {Event("bus_message", "bus", None, None, DispatchTargets(subject),
                      SubjectWhiteboard(subject), None, {}, {})}
    /\ received' = NoFrame
    /\ UNCHANGED <<registry, bridge, published, pc, arg, frames, emitted,
                   online_users, departure>>
    /\ UNCHANGED standalone

\* ------------------------------------------------------------- specification
Next ==
    \/ \E c \in Conns : HandshakeReject(c)
    \/ \E c \in Conns : HandshakeConnect(c)
    \/ \E c \in Conns : ConnectPresence(c)
    \/ \E c \in Conns : ConnectFanout(c)
    \/ \E c \in Conns : ReceiveJoin(c)
    \/ \E c \in Conns : JoinBroadcast(c)
    \/ \E c \in Conns : JoinReply(c)
    \/ \E c \in Conns : ReceiveLeave(c)
    \/ \E c \in Conns : ReceiveCursorMove(c)
    \/ \E c \in FaultyClients : ReceiveUnknown(c)
    \/ \E c \in FaultyClients : ReceiveRejectedJoin(c)
    \/ \E c \in FaultyClients : ReceiveIllShaped(c)
    \/ \E c \in FaultyClients : ReceiveCursorMoveInvalid(c)
    \/ \E c \in FaultyClients : ReceiveNotePosition(c)
    \/ \E c \in Conns : ReceiveClose(c)
    \/ \E c \in Conns : DisconnectAfterError(c)
    \/ \E c \in Conns : DisconnectFanout(c)
    \/ \E c \in Conns : DisconnectAgain(c)
    \/ \E c \in Conns : DisconnectAgainFanout(c)
    \/ \E u \in AddressedUsers : BroadcastToUser(u)
    \/ \E subject \in Subjects : MessageArrives(subject)

Spec == Init /\ [][Next]_vars

\* ------------------------------------------- the bridge called from outside
\* the subjects the outside callers use
BridgeSubjects == {presence_subject, whiteboard_subject("W1")}

\* whether the bus client's publish returns: it raises when every call does,
\* and while the transport is down it either buffers the message or raises
ClientAccepts ==
    IF client_raises THEN {FALSE} ELSE IF link = "down" THEN BOOLEAN ELSE {TRUE}

\* faulty publish: what the bus client raises reaches the caller
PublishCall_Propagates(subject, payload_ok, accepts) ==
    IF ~nats_connected
    THEN [invoked |-> FALSE, failed |-> FALSE, accepted |-> FALSE, returned |-> "normal"]
    ELSE IF ~payload_ok
    THEN [invoked |-> FALSE, failed |-> TRUE, accepted |-> FALSE, returned |-> "normal"]
    ELSE IF ~accepts
    THEN [invoked |-> TRUE, failed |-> TRUE, accepted |-> FALSE, returned |-> "raised"]
    ELSE [invoked |-> TRUE, failed |-> FALSE, accepted |-> TRUE, returned |-> "normal"]

\* NATSClientManager.publish: returns at once when not connected; otherwise
\* serialises the payload and calls the bus client inside try/except Exception
PublishCall(subject, payload_ok, accepts) ==
    IF ~nats_connected
    THEN [invoked |-> FALSE, failed |-> FALSE, accepted |-> FALSE, returned |-> "normal"]
    ELSE IF ~payload_ok
    THEN [invoked |-> FALSE, failed |-> TRUE, accepted |-> FALSE, returned |-> "normal"]
    ELSE IF ~accepts
    THEN [invoked |-> TRUE, failed |-> TRUE, accepted |-> FALSE, returned |-> "normal"]
    ELSE [invoked |-> TRUE, failed |-> FALSE, accepted |-> TRUE, returned |-> "normal"]

\* the handlers of a subject, as a bag
HandlersOf(hs, subject) ==
    [h \in {x \in BagToSet(hs) : x.subject = subject} |-> hs[h]]

\* the bag hs without the handlers of a subject
WithoutSubject(hs, subject) ==
    [h \in {x \in BagToSet(hs) : x.subject # subject} |-> hs[h]]

\* NATSClientManager.unsubscribe: one closure that sends to c is discarded,
\* or with c = None all handlers of the subject; the bus subscription is
\* unsubscribed once no handler is left, and its entry is deleted after that
\* call has returned
Unsubscribe(subject, c) ==
    LET present == HandlersOf(handlers, subject) # EmptyBag
        hs == IF c = None THEN WithoutSubject(handlers, subject)
              ELSE handlers (-) SetToBag({Handler(subject, c, None)})
        empty == HandlersOf(hs, subject) = EmptyBag
        calls == present /\ empty /\ subject \in subscriptions
        raises == calls /\ ClientRaises
    IN  [handlers |-> IF present THEN hs ELSE handlers,
         subscriptions |-> IF calls /\ ~raises THEN subscriptions \ {subject}
                           ELSE subscriptions,
         called |-> calls, raised |-> raises]

\* an outside caller publishes on a subject
BridgePublish(subject) ==
    /\ bridge_call.n < MaxBridgeCalls
    /\ \E payload_ok \in BOOLEAN : \E accepts \in ClientAccepts :
          LET r == PublishCall(subject, payload_ok, accepts)
          IN  /\ published' = IF r.accepted THEN published \cup {subject} ELSE published
              /\ bridge_call' = Call(bridge_call.n + 1, "publish", subject, r.invoked,
                                     r.failed, r.returned)
    /\ UNCHANGED <<realtime, bridge, link, request, query, dispatch, lock>>

\* an outside caller subscribes a new closure, one that sends to c
BridgeSubscribe(subject, c) ==
    /\ bridge_call.n < MaxBridgeCalls
    /\ LET br == Subscribe(Bridge, Handler(subject, c, None))
       IN  /\ handlers' = br.handlers
           /\ subscriptions' = br.subscriptions
           /\ bridge_call' = Call(bridge_call.n + 1, "subscribe", subject, br.called,
                                  br.raised, IF br.raised THEN "raised" ELSE "normal")
    /\ UNCHANGED <<realtime, nats_connected, client_raises, published, link, request, query, dispatch, lock>>

\* an outside caller unsubscribes a closure that sends to c (c = None: every
\* handler of the subject)
BridgeUnsubscribe(subject, c) ==
    /\ bridge_call.n < MaxBridgeCalls
    /\ LET br == Unsubscribe(subject, c)
       IN  /\ handlers' = br.handlers
           /\ subscriptions' = br.subscriptions
           /\ bridge_call' = Call(bridge_call.n + 1, "unsubscribe", subject, br.called,
                                  br.raised, IF br.raised THEN "raised" ELSE "normal")
    /\ UNCHANGED <<realtime, nats_connected, client_raises, published, link, request, query, dispatch, lock>>

\* NATSClientManager.connect: nothing when connected; otherwise nats.connect
\* gives a new client or raises
BridgeConnect ==
    /\ bridge_call.n < MaxBridgeCalls
    /\ IF nats_connected
       THEN /\ bridge_call' = Call(bridge_call.n + 1, "connect", NoSubject, FALSE, FALSE, "normal")
            /\ UNCHANGED <<nats_connected, link>>
       ELSE \E reached \in BOOLEAN :
               /\ nats_connected' = reached
               /\ link' = IF reached THEN "up" ELSE link
               /\ bridge_call' = Call(bridge_call.n + 1, "connect", NoSubject, TRUE, ~reached,
                                      IF reached THEN "normal" ELSE "raised")
    /\ UNCHANGED <<realtime, client_raises, handlers, subscriptions, published, request, query, dispatch, lock>>

\* NATSClientManager.close: drains and closes the client of a connected
\* bridge; drain raises when the client's calls raise or it is reconnecting
BridgeClose ==
    /\ bridge_call.n < MaxBridgeCalls
    /\ IF ~nats_connected
       THEN /\ bridge_call' = Call(bridge_call.n + 1, "close", NoSubject, FALSE, FALSE, "normal")
            /\ UNCHANGED <<nats_connected, link>>
       ELSE IF client_raises \/ link = "down"
       THEN /\ bridge_call' = Call(bridge_call.n + 1, "close", NoSubject, TRUE, TRUE, "raised")
            /\ UNCHANGED <<nats_connected, link>>
       ELSE /\ bridge_call' = Call(bridge_call.n + 1, "close", NoSubject, TRUE, FALSE, "normal")
            /\ nats_connected' = FALSE
            /\ link' = "closed"
    /\ UNCHANGED <<realtime, client_raises, handlers, subscriptions, published, request, query, dispatch, lock>>

\* _disconnected_callback: the client lost its transport and starts
\* reconnecting; the callback only logs
DisconnectedCallback ==
    /\ nats_connected /\ link = "up"
    /\ link' = "down"
    /\ UNCHANGED <<realtime, bridge, published, bridge_call, request, query, dispatch, lock>>

\* _reconnected_callback: the callback only logs
ReconnectedCallback ==
    /\ link = "down"
    /\ link' = "up"
    /\ UNCHANGED <<realtime, bridge, published, bridge_call, request, query, dispatch, lock>>

\* ------------------------------------------------------------- the routers
NoteOps == {"create_note", "update_note", "delete_note"}

CrudOps == NoteOps \cup {"create_whiteboard", "update_whiteboard", "delete_whiteboard"}

\* the status of the response of a call that went through
SuccessStatus ==
    [create_note |-> 201, update_note |-> 200, delete_note |-> 204,
     create_whiteboard |-> 201, update_whiteboard |-> 200, delete_whiteboard |-> 204]

\* faulty copy: a public whiteboard gives read
notes_get_user_permission_PublicRead(whiteboard, u) ==
    IF whiteboard.owner_id = u THEN "admin"
    ELSE IF whiteboard.access_type = "public" THEN "read"
    ELSE IF whiteboard.access_type = "shared"
         THEN SharePermission(whiteboard.shared_with, u)
    ELSE None

\* get_user_permission of routers/notes.py
notes_get_user_permission(whiteboard, u) ==
    IF whiteboard.owner_id = u THEN "admin"
    ELSE IF whiteboard.access_type = "public" THEN "write"
    ELSE IF whiteboard.access_type = "shared"
         THEN SharePermission(whiteboard.shared_with, u)
    ELSE None

\* get_user_permission of routers/whiteboards.py
whiteboards_get_user_permission(whiteboard, u) ==
    IF whiteboard.owner_id = u THEN "admin"
    ELSE IF whiteboard.access_type = "public" THEN "write"
    ELSE IF whiteboard.access_type = "shared"
         THEN SharePermission(whiteboard.shared_with, u)
    ELSE None

can_access_whiteboard(whiteboard, u) == whiteboards_get_user_permission(whiteboard, u) # None

can_write_whiteboard(whiteboard, u) ==
    whiteboards_get_user_permission(whiteboard, u) \in {"write", "admin"}

can_admin_whiteboard(whiteboard, u) ==
    whiteboards_get_user_permission(whiteboard, u) = "admin"

\* check_whiteboard_write_access of routers/notes.py, for a whiteboard found
check_whiteboard_write_access(whiteboard, u) ==
    notes_get_user_permission(whiteboard, u) \in {"write", "admin"}

\* check_whiteboard_read_access of routers/notes.py, for a whiteboard found
check_whiteboard_read_access(whiteboard, u) ==
    notes_get_user_permission(whiteboard, u) # None

\* the permission check of each call: write for notes, admin to update or
\* delete a whiteboard, none to create one (w is None then)
CrudPermitted(op, u, w) ==
    IF op \in NoteOps THEN check_whiteboard_write_access(WhiteboardStore[w], u)
    ELSE IF op = "create_whiteboard" THEN TRUE
    ELSE can_admin_whiteboard(WhiteboardStore[w], u)

\* the subject of the broadcast the handler schedules, NoSubject if it schedules
\* none: creation and deletion of a whiteboard are announced only if public
CrudSubject(op, w, access) ==
    IF op \in NoteOps \cup {"update_whiteboard"} THEN whiteboard_subject(w)
    ELSE IF access = "public" THEN whiteboards_global
    ELSE NoSubject

\* the request handler: 403 without change, or the change flushed in the
\* session, the broadcast scheduled as a background task and the response
CrudHandler(op, u, w, access) ==
    IF ~CrudPermitted(op, u, w)
    THEN Request(op, u, w, access, 403, "none", "none")
    ELSE Request(op, u, w, access, SuccessStatus[op], "flushed",
                 IF CrudSubject(op, w, access) = NoSubject THEN "none" ELSE "scheduled")

\* a CRUD call arrives and its handler runs
CrudRequest(op, u) ==
    /\ request = NoRequest
    /\ \E w \in IF op = "create_whiteboard" THEN {None} ELSE DOMAIN WhiteboardStore :
       \E access \in IF op = "create_whiteboard" THEN {"private", "public"}
                     ELSE {WhiteboardStore[w].access_type} :
          request' = CrudHandler(op, u, w, access)
    /\ UNCHANGED <<realtime, bridge, published, link, bridge_call, query, dispatch, lock>>

\* the session dependency after the handler has returned: commit
CrudCommit ==
    /\ request.effect = "flushed"
    /\ request' = [request EXCEPT !.effect = "committed"]
    /\ UNCHANGED <<realtime, bridge, published, link, bridge_call, query, dispatch, lock>>

\* the calls that only read: list_notes, get_note, get_whiteboard
ReadOps == {"list_notes", "get_note", "get_whiteboard"}

\* the check of each read call: check_whiteboard_read_access in list_notes and
\* get_note, can_access_whiteboard in get_whiteboard
ReadPermitted(op, u, w) ==
    IF op = "get_whiteboard" THEN can_access_whiteboard(WhiteboardStore[w], u)
    ELSE check_whiteboard_read_access(WhiteboardStore[w], u)

\* a read call arrives: 403 or the rows, nothing changes and nothing is scheduled
ReadRequest(op, u) ==
    /\ request = NoRequest
    /\ \E w \in DOMAIN WhiteboardStore :
          request' = Request(op, u, w, WhiteboardStore[w].access_type,
                             IF ReadPermitted(op, u, w) THEN 200 ELSE 403, "none", "none")
    /\ UNCHANGED <<realtime, bridge, published, link, bridge_call, query, dispatch, lock>>

\* whiteboard ids check_whiteboard_access may be called with: the rows of the
\* table and an id without row
WhiteboardIds == DOMAIN WhiteboardStore \cup {"W9"}

\* the tuple check_whiteboard_access returns
AccessResult(whiteboard, permission, error) ==
    [whiteboard |-> whiteboard, permission |-> permission, error |-> error]

\* faulty check: require_write is ignored
check_whiteboard_access_IgnoresRequireWrite(w, u, require_write) ==
    IF w \notin DOMAIN WhiteboardStore THEN AccessResult(None, None, "not_found")
    ELSE LET permission == get_user_permission(WhiteboardStore[w], u)
         IN  IF permission = None THEN AccessResult(None, None, "access_denied")
             ELSE AccessResult(w, permission, None)

\* check_whiteboard_access of app/permissions.py
check_whiteboard_access(w, u, require_write) ==
    IF w \notin DOMAIN WhiteboardStore THEN AccessResult(None, None, "not_found")
    ELSE LET permission == get_user_permission(WhiteboardStore[w], u)
         IN  IF permission = None THEN AccessResult(None, None, "access_denied")
             ELSE IF require_write /\ permission \notin {"write", "admin"}
             THEN AccessResult(None, None, "write_required")
             ELSE AccessResult(w, permission, None)

\* a call of check_whiteboard_access with its arguments and its result
AccessCheck(w, u, require_write, result) ==
    [whiteboard |-> w, user_id |-> u, require_write |-> require_write, result |-> result]

\* check_whiteboard_access is called
CheckWhiteboardAccess(w, u, require_write) ==
    /\ query = NoQuery
    /\ query' = AccessCheck(w, u, require_write, check_whiteboard_access(w, u, require_write))
    /\ UNCHANGED <<realtime, bridge, published, link, bridge_call, request, dispatch, lock>>

\* faulty background task: a publish that did not go through undoes the
\* change and fails the request
AfterBroadcast_UndoesOnFailure(req, r) ==
    IF r.accepted THEN [req EXCEPT !.task = "done"]
    ELSE [req EXCEPT !.task = "done", !.effect = "none", !.status = 500]

\* broadcast_note_event / broadcast_whiteboard_event /
\* broadcast_global_whiteboard_event: whatever publish did, the task ends
AfterBroadcast(req, r) == [req EXCEPT !.task = "done"]

\* the background task of the request publishes its event
CrudBroadcast ==
    /\ request.task = "scheduled"
    /\ bridge_call.n < MaxBridgeCalls
    /\ \E accepts \in ClientAccepts :
          LET subject == CrudSubject(request.op, request.wb, request.access)
              r == PublishCall(subject, TRUE, accepts)
          IN  /\ published' = IF r.accepted THEN published \cup {subject} ELSE published
              /\ bridge_call' = Call(bridge_call.n + 1, "publish", subject, r.invoked,
                                     r.failed, r.returned)
              /\ request' = AfterBroadcast(request, r)
    /\ UNCHANGED <<realtime, bridge, link, query, dispatch, lock>>

BridgeNext ==
    \/ \E subject \in BridgeSubjects : BridgePublish(subject)
    \/ \E subject \in BridgeSubjects : \E c \in Conns : BridgeSubscribe(subject, c)
    \/ \E subject \in BridgeSubjects : \E c \in Conns \cup {None} :
          BridgeUnsubscribe(subject, c)
    \/ BridgeConnect
    \/ BridgeClose
    \/ DisconnectedCallback
    \/ ReconnectedCallback

BridgeSpec == Init /\ [][BridgeNext]_vars

\* one CRUD request served while the bus transport comes and goes
CrudNext ==
    \/ \E op \in CrudOps : \E u \in Users : CrudRequest(op, u)
    \/ \E op \in ReadOps : \E u \in Users : ReadRequest(op, u)
    \/ \E w \in WhiteboardIds : \E u \in Users : \E require_write \in BOOLEAN :
          CheckWhiteboardAccess(w, u, require_write)
    \/ CrudCommit
    \/ CrudBroadcast
    \/ DisconnectedCallback
    \/ ReconnectedCallback

CrudSpec == Init /\ [][CrudNext]_vars

\* ------------------------------------------------- dispatch of a message
\* message_handler loops over the live handler set of its subject without the
\* bridge's lock and awaits every handler; while it is suspended in a handler
\* other tasks subscribe and unsubscribe.  dispatch.set is the content of the
\* set object the loop iterates over, which stays the subject's handler set
\* until unsubscribe deletes the key.
DispatchSubject == presence_subject

\* the handlers two bags have in common
BagMin(a, b) ==
    [h \in BagToSet(a) \cap BagToSet(b) |->
        IF CopiesIn(h, a) < CopiesIn(h, b) THEN CopiesIn(h, a) ELSE CopiesIn(h, b)]

\* the set object under iteration after the bridge's handlers changed to hs:
\* it follows the subject's handler set while it is that set, and it is left
\* empty when unsubscribe has emptied it and deleted its key
IteratedSet(hs) ==
    IF ~dispatch.attached THEN dispatch.set
    ELSE HandlersOf(hs, DispatchSubject)

\* the loop's record after a subscribe or unsubscribe changed the handlers to hs
DispatchAfter(hs) ==
    IF dispatch.status # "running" THEN dispatch
    ELSE [dispatch EXCEPT
             !.set = IteratedSet(hs),
             !.attached = @ /\ HandlersOf(hs, DispatchSubject) # EmptyBag,
             !.stayed = BagMin(@, HandlersOf(hs, DispatchSubject))]

\* another task subscribes a new closure, one that sends to c
ConcurrentSubscribe(c) ==
    /\ bridge_call.n < MaxBridgeCalls
    /\ LET br == Subscribe(Bridge, Handler(DispatchSubject, c, None))
       IN  /\ handlers' = br.handlers
           /\ subscriptions' = br.subscriptions
           /\ bridge_call' = Call(bridge_call.n + 1, "subscribe", DispatchSubject, br.called,
                                  br.raised, IF br.raised THEN "raised" ELSE "normal")
           /\ dispatch' = DispatchAfter(br.handlers)
    /\ UNCHANGED <<realtime, nats_connected, client_raises, published, link, request, query,
                   lock>>

\* another task unsubscribes a closure that sends to c
ConcurrentUnsubscribe(c) ==
    /\ bridge_call.n < MaxBridgeCalls
    /\ LET br == Unsubscribe(DispatchSubject, c)
       IN  /\ handlers' = br.handlers
           /\ subscriptions' = br.subscriptions
           /\ bridge_call' = Call(bridge_call.n + 1, "unsubscribe", DispatchSubject, br.called,
                                  br.raised, IF br.raised THEN "raised" ELSE "normal")
           /\ dispatch' = DispatchAfter(br.handlers)
    /\ UNCHANGED <<realtime, nats_connected, client_raises, published, link, request, query,
                   lock>>

\* one turn of "for h in handlers": the set iterator raises RuntimeError when
\* the set changed size since the loop began, which nothing in message_handler
\* catches; otherwise the loop ends or calls a handler not yet called
LoopNext(d) ==
    LET pending == d.set (-) d.invoked
    IN  IF BagCardinality(d.set) # d.size THEN {[d EXCEPT !.status = "aborted"]}
        ELSE IF pending = EmptyBag THEN {[d EXCEPT !.status = "done"]}
        ELSE {[d EXCEPT !.invoked = @ (+) SetToBag({h})] : h \in BagToSet(pending)}

\* a message arrives on the subject: message_handler takes the handler set and
\* runs up to the await of the first handler
DispatchStarts ==
    /\ dispatch.status = "idle"
    /\ DispatchSubject \in subscriptions
    /\ LET hs == HandlersOf(handlers, DispatchSubject)
       IN  dispatch' \in LoopNext([subject |-> DispatchSubject, size |-> BagCardinality(hs),
                                   stayed |-> hs, invoked |-> EmptyBag, status |-> "running",
                                   set |-> hs, attached |-> hs # EmptyBag])
    /\ UNCHANGED <<realtime, bridge, published, link, bridge_call, request, query, lock>>

\* the awaited handler has returned or raised (its exception is logged): the
\* loop goes on
DispatchResumes ==
    /\ dispatch.status = "running"
    /\ dispatch' \in LoopNext(dispatch)
    /\ UNCHANGED <<realtime, bridge, published, link, bridge_call, request, query, lock>>

DispatchNext ==
    \/ \E c \in Conns : ConcurrentSubscribe(c)
    \/ \E c \in Conns : ConcurrentUnsubscribe(c)
    \/ DispatchStarts
    \/ DispatchResumes

DispatchSpec == Init /\ [][DispatchNext]_vars

\* ------------------------------------------------------------- the policy
PolicyUsers == {"alice", "bob", "carol"}

AccessTypes == {"public", "private", "shared"}

PermissionLevels == {"read", "write", "admin"}

\* share lists: at most MaxShares entries, one per user at most (the shares
\* table is unique on whiteboard and user)
ShareLists ==
    {l \in UNION {[1..n -> [user_id : PolicyUsers, permission : PermissionLevels]] :
                     n \in 0..MaxShares} :
        \A i, j \in DOMAIN l : l[i].user_id = l[j].user_id => i = j}

\* whiteboard rows with their shares loaded
WhiteboardInputs ==
    [owner_id : PolicyUsers, access_type : AccessTypes, shared_with : ShareLists]

PolicyInit ==
    /\ connections = << >>
    /\ whiteboard_viewers = << >>
    /\ user_id = [c \in Conns |-> None]
    /\ current_whiteboard_id = [c \in Conns |-> None]
    /\ cursor = [c \in Conns |-> Origin]
    /\ nats_connected = FALSE
    /\ client_raises = FALSE
    /\ handlers = EmptyBag
    /\ subscriptions = {}
    /\ published = {}
    /\ pc = [c \in Conns |-> "accept"]
    /\ arg = [c \in Conns |-> None]
    /\ frames = 0
    /\ sent = {}
    /\ emitted = [c \in Conns |-> {}]
    /\ online_users = [c \in Conns |-> {}]
    /\ departure = [c \in Conns |-> NoDeparture]
    /\ received = NoFrame
    /\ link = "up"
    /\ bridge_call = NoCall
    /\ request = NoRequest
    /\ dispatch = NoDispatch
    /\ lock = None
    /\ \E whiteboard \in WhiteboardInputs : \E u \in PolicyUsers :
          query = Query(whiteboard, u, "unset")

\* get_user_permission is called with the arguments drawn
GetUserPermission ==
    /\ query.permission = "unset"
    /\ query' = [query EXCEPT !.permission = get_user_permission(query.whiteboard, query.user_id)]
    /\ UNCHANGED <<realtime, bridge, published, link, bridge_call, request, dispatch, lock>>

\* the three copies of get_user_permission are called with the arguments
\* drawn, and the predicates of the whiteboards router derived from its copy
CompareCopies ==
    /\ query.permission = "unset"
    /\ query' = [whiteboard |-> query.whiteboard, user_id |-> query.user_id,
                 permission |-> get_user_permission(query.whiteboard, query.user_id),
                 notes |-> notes_get_user_permission(query.whiteboard, query.user_id),
                 whiteboards |->
                     whiteboards_get_user_permission(query.whiteboard, query.user_id),
                 can_write |-> can_write_whiteboard(query.whiteboard, query.user_id),
                 can_admin |-> can_admin_whiteboard(query.whiteboard, query.user_id),
                 notes_write |->
                     check_whiteboard_write_access(query.whiteboard, query.user_id)]
    /\ UNCHANGED <<realtime, bridge, published, link, bridge_call, request, dispatch, lock>>

CopiesNext == CompareCopies

CopiesSpec == PolicyInit /\ [][CopiesNext]_vars

PolicyNext == GetUserPermission

PolicySpec == PolicyInit /\ [][PolicyNext]_vars


\* ------------------------------------------------------- the registry lock
\* The registry operations with the lock made explicit.  asyncio runs a locked
\* section without suspension when the lock is free; here other tasks may run
\* between any two steps of a section, which covers every scheduler.  After the
\* section the operation's sends and bus calls are taken to return.

\* what the registry operations neither read nor write
outside_registry == <<nats_connected, client_raises, handlers, subscriptions, published, sent,
                      emitted, online_users, departure, received, link, bridge_call, request,
                      query, dispatch>>

\* a task at "async with self._lock", not yet holding it
LockWaiting == {"connect_wait", "join_wait", "leave_wait", "disc_wait"}

\* where a task stands once it holds the lock
LockAcquired ==
    [connect_wait |-> "connect_locked", join_wait |-> "join_locked",
     leave_wait |-> "leave_locked", disc_wait |-> "disc_locked"]

\* a task in _leave_whiteboard_internal, and where it returns to
LeaveInternalReturn ==
    [join_leave |-> "join_add", leave_leave |-> "leave_done", disc_leave |-> "disc_done"]

\* manager.connect is called for a transport whose token names u
ConnectStarts(c) ==
    /\ pc[c] = "accept"
    /\ \E u \in TokenUsers(c) : user_id' = [user_id EXCEPT ![c] = u]
    /\ pc' = [pc EXCEPT ![c] = "connect_wait"]
    /\ UNCHANGED <<connections, whiteboard_viewers, current_whiteboard_id, cursor, arg, frames,
                   lock, outside_registry>>

\* manager.join_whiteboard(c, w) is called
JoinStarts(c) ==
    /\ pc[c] = "loop"
    /\ frames < MaxFrames
    /\ \E w \in Whiteboards : arg' = [arg EXCEPT ![c] = w]
    /\ pc' = [pc EXCEPT ![c] = "join_wait"]
    /\ frames' = frames + 1
    /\ UNCHANGED <<registry, lock, outside_registry>>

\* manager.leave_whiteboard(c) is called: it returns at once when c views
\* nothing, and takes the lock otherwise
LeaveStarts(c) ==
    /\ pc[c] = "loop"
    /\ frames < MaxFrames
    /\ pc' = [pc EXCEPT ![c] = IF current_whiteboard_id[c] = None THEN "loop"
                               ELSE "leave_wait"]
    /\ frames' = frames + 1
    /\ UNCHANGED <<registry, arg, lock, outside_registry>>

\* manager.update_cursor(c, x, y): no lock is taken
UpdateCursor(c) ==
    /\ pc[c] = "loop"
    /\ frames < MaxFrames
    /\ \E xy \in CursorInputs : cursor' = [cursor EXCEPT ![c] = xy]
    /\ frames' = frames + 1
    /\ UNCHANGED <<connections, whiteboard_viewers, user_id, current_whiteboard_id, pc, arg,
                   lock, outside_registry>>

\* manager.disconnect(c) is called
DisconnectStarts(c) ==
    /\ pc[c] = "loop"
    /\ pc' = [pc EXCEPT ![c] = "disc_wait"]
    /\ UNCHANGED <<registry, arg, frames, lock, outside_registry>>

\* async with self._lock: the task gets the lock when it is free
AcquireLock(c) ==
    /\ pc[c] \in LockWaiting
    /\ lock = None
    /\ lock' = c
    /\ pc' = [pc EXCEPT ![c] = LockAcquired[pc[c]]]
    /\ UNCHANGED <<registry, arg, frames, outside_registry>>

\* connect's locked section, left at once
ConnectSection(c) ==
    /\ pc[c] = "connect_locked"
    /\ connections' = ConnectConnections(c, user_id[c])
    /\ lock' = None
    /\ pc' = [pc EXCEPT ![c] = "returning"]
    /\ UNCHANGED <<whiteboard_viewers, user_id, current_whiteboard_id, cursor, arg, frames,
                   outside_registry>>

\* disconnect's locked section up to the call of _leave_whiteboard_internal,
\* made only if c views a whiteboard
DisconnectSection(c) ==
    /\ pc[c] = "disc_locked"
    /\ connections' = DisconnectConnections(c)
    /\ pc' = [pc EXCEPT ![c] = IF current_whiteboard_id[c] # None THEN "disc_leave"
                               ELSE "disc_done"]
    /\ UNCHANGED <<whiteboard_viewers, user_id, current_whiteboard_id, cursor, arg, frames,
                   lock, outside_registry>>

\* join_whiteboard's locked section up to the call of
\* _leave_whiteboard_internal, made only if c views a whiteboard
JoinSection(c) ==
    /\ pc[c] = "join_locked"
    /\ pc' = [pc EXCEPT ![c] = IF current_whiteboard_id[c] # None THEN "join_leave"
                               ELSE "join_add"]
    /\ UNCHANGED <<registry, arg, frames, lock, outside_registry>>

\* leave_whiteboard's locked section: the call of _leave_whiteboard_internal
LeaveSection(c) ==
    /\ pc[c] = "leave_locked"
    /\ pc' = [pc EXCEPT ![c] = "leave_leave"]
    /\ UNCHANGED <<registry, arg, frames, lock, outside_registry>>

\* faulty internal leave: it takes the lock itself, like leave_whiteboard
LeaveWhiteboardInternal_TakesLock(c) ==
    /\ pc[c] \in DOMAIN LeaveInternalReturn
    /\ lock = None
    /\ whiteboard_viewers' = LeaveInternalViewers(c)
    /\ current_whiteboard_id' = [current_whiteboard_id EXCEPT ![c] = None]
    /\ cursor' = [cursor EXCEPT ![c] = Origin]
    /\ pc' = [pc EXCEPT ![c] = LeaveInternalReturn[pc[c]]]
    /\ UNCHANGED <<connections, user_id, arg, frames, lock, outside_registry>>

\* _leave_whiteboard_internal, called with the lock held: it does not touch
\* the lock
LeaveWhiteboardInternal(c) ==
    /\ pc[c] \in DOMAIN LeaveInternalReturn
    /\ whiteboard_viewers' = LeaveInternalViewers(c)
    /\ current_whiteboard_id' = [current_whiteboard_id EXCEPT ![c] = None]
    /\ cursor' = [cursor EXCEPT ![c] = Origin]
    /\ pc' = [pc EXCEPT ![c] = LeaveInternalReturn[pc[c]]]
    /\ UNCHANGED <<connections, user_id, arg, frames, lock, outside_registry>>

\* the rest of join_whiteboard's locked section, left at once
JoinAdds(c) ==
    /\ pc[c] = "join_add"
    /\ current_whiteboard_id' = [current_whiteboard_id EXCEPT ![c] = arg[c]]
    /\ whiteboard_viewers' = DictAdd(whiteboard_viewers, arg[c], c)
    /\ lock' = None
    /\ pc' = [pc EXCEPT ![c] = "returning"]
    /\ UNCHANGED <<connections, user_id, cursor, arg, frames, outside_registry>>

\* the end of "async with" in leave_whiteboard and disconnect
ReleaseLock(c) ==
    /\ pc[c] \in {"leave_done", "disc_done"}
    /\ lock' = None
    /\ pc' = [pc EXCEPT ![c] = IF pc[c] = "disc_done" THEN "disc_returning" ELSE "returning"]
    /\ UNCHANGED <<registry, arg, frames, outside_registry>>

\* what follows the locked section (subscriptions, broadcasts) has returned
OperationReturns(c) ==
    /\ pc[c] \in {"returning", "disc_returning"}
    /\ pc' = [pc EXCEPT ![c] = IF pc[c] = "disc_returning" THEN "closed" ELSE "loop"]
    /\ arg' = [arg EXCEPT ![c] = None]
    /\ UNCHANGED <<registry, frames, lock, outside_registry>>

\* the steps of an operation under way, which the event loop schedules
LockProgress(c) ==
    \/ AcquireLock(c)
    \/ ConnectSection(c)
    \/ DisconnectSection(c)
    \/ JoinSection(c)
    \/ LeaveSection(c)
    \/ LeaveWhiteboardInternal(c)
    \/ JoinAdds(c)
    \/ ReleaseLock(c)
    \/ OperationReturns(c)

LockNext ==
    \/ \E c \in Conns : ConnectStarts(c)
    \/ \E c \in Conns : JoinStarts(c)
    \/ \E c \in Conns : LeaveStarts(c)
    \/ \E c \in Conns : UpdateCursor(c)
    \/ \E c \in Conns : DisconnectStarts(c)
    \/ \E c \in Conns : LockProgress(c)

\* the bridge plays no part: its calls are taken to return
LockInit == Init /\ ~nats_connected

\* every task keeps being scheduled
LockSpec == LockInit /\ [][LockNext]_vars /\ \A c \in Conns : WF_vars(LockProgress(c))

\* ------------------------------------------------------------- properties
\* the viewer sets a connection is a member of
ViewerSetsOf(c) == {w \in DOMAIN whiteboard_viewers : c \in whiteboard_viewers[w]}

\* the connection is registered in the user index
Registered(c) == \E u \in DOMAIN connections : c \in connections[u]

\* manager.disconnect(c) has returned
Disconnected(c) == pc[c] \in {"closed", "redisc_fanout", "closed_twice"}

\* websocket_endpoint has returned or raised for this transport
EndpointEnded(c) == pc[c] \in {"rejected", "leaked", "closed", "redisc_fanout", "closed_twice"}

\* the step is c's join_whiteboard locked section
JoinStep(c) == pc[c] = "loop" /\ pc'[c] \in {"join_bcast", "join_reply"}

\* the step belongs to a second manager.disconnect(c)
RepeatedDisconnectStep(c) ==
    /\ pc[c] \in {"closed", "redisc_fanout"}
    /\ pc'[c] \in {"redisc_fanout", "closed_twice"}
    /\ pc'[c] # pc[c]

\* C1: in every state (every state is between two awaits) a connection is in
\* the viewer set of w exactly when its current_whiteboard_id is w, and it is
\* in at most one viewer set
C1_ViewerMembership ==
    \A c \in Conns :
        /\ \A w \in Whiteboards \cup DOMAIN whiteboard_viewers :
              (c \in DictGet(whiteboard_viewers, w)) <=> (current_whiteboard_id[c] = w)
        /\ Cardinality(ViewerSetsOf(c)) <= 1

\* C1 witness: a connection has switched from W1 to W2 while another one has
\* left or never joined
C1_Witness ==
    \E c, d \in Conns :
        /\ c # d
        /\ current_whiteboard_id[c] = "W2" /\ departure[c].wb = "W1"
        /\ Registered(d) /\ current_whiteboard_id[d] = None

\* C2 (as claimed): a user without read access never gets into the viewer set
\* of the whiteboard, never has it as current_whiteboard_id, gets no whiteboard
\* handler on the bridge, causes no user_joined, and is not answered with
\* whiteboard_joined
C2_JoinDeniedWithoutReadAccess ==
    \A c \in Conns : \A w \in Whiteboards :
        (user_id[c] # None /\ ~has_whiteboard_read_access(w, user_id[c])) =>
            /\ c \notin DictGet(whiteboard_viewers, w)
            /\ current_whiteboard_id[c] # w
            /\ Handler(whiteboard_subject(w), c, w) \notin BagToSet(handlers)
            /\ \A e \in sent :
                  (e.origin = c /\ e.wb = w) =>
                      e.type \notin {"user_joined", "whiteboard_joined"}

\* C3: once manager.disconnect(c) has returned, c is in no set of either
\* index and no broadcast selects it
C3_DisconnectRemovesEverywhere ==
    \A c \in Conns :
        Disconnected(c) =>
            /\ ~Registered(c)
            /\ ViewerSetsOf(c) = {}
            /\ \A x \in Conns \cup {None} :
                  /\ c \notin BroadcastToAllTargets(x)
                  /\ \A w \in Whiteboards : c \notin BroadcastToWhiteboardTargets(w, x)
            /\ \A u \in Users : c \notin BroadcastToUserTargets(u)
            /\ \A e \in sent : e.via \in {"whiteboard", "user", "all"} => c \notin e.to

\* C3 witness: a connection was disconnected while viewing a whiteboard that
\* another connection keeps viewing
C3_Witness ==
    \E c, d \in Conns :
        /\ pc[c] = "closed" /\ departure[c].wb # None
        /\ d \in departure[c].remaining /\ current_whiteboard_id[d] = departure[c].wb

\* C4 (as claimed): when manager.disconnect(c) has returned and it removed c
\* from a whiteboard that kept other viewers, a user_left was sent by it
C4_DisconnectNotifiesViewers ==
    \A c \in Conns :
        (pc[c] = "closed" /\ departure[c].wb # None /\ departure[c].remaining # {})
            => "user_left" \in emitted[c]

C6_EndedEndpointIsDisconnected ==
    \A c \in Conns : EndpointEnded(c) => ~Registered(c)

\* C7 (as claimed): once manager.disconnect(c) has returned the bridge holds
\* no handler that forwards to c, and no arriving message is sent to c
C7_DisconnectUnsubscribes ==
    \A c \in Conns :
        Disconnected(c) =>
            /\ \A h \in BagToSet(handlers) : h.conn # c
            /\ \A subject \in Subjects : c \notin DispatchTargets(subject)
            /\ \A e \in sent : e.via = "bus" => c \notin e.to

\* C8: a broadcast to whiteboard w with exclude = c is attempted to exactly the
\* connections whose current whiteboard is w, except c
C8_WhiteboardBroadcastTargets ==
    \A e \in sent :
        e.via = "whiteboard" =>
            /\ e.to = {x \in Conns : Registered(x) /\ current_whiteboard_id[x] = e.wb}
                          \ {e.exclude}
            /\ e.exclude \notin e.to

\* C8 witness: a broadcast with an excluded sender reached another viewer
C8_Witness ==
    \E e \in sent : e.via = "whiteboard" /\ e.exclude # None /\ e.to # {}

\* C9: the step in which a connection viewing a whiteboard joins one leaves it
\* in exactly one viewer set, that of the whiteboard joined
C9_JoinSwitchesAtomically ==
    [][\A c \in Conns :
          (JoinStep(c) /\ current_whiteboard_id[c] # None) =>
              /\ ViewerSetsOf(c)' = {arg'[c]}
              /\ current_whiteboard_id'[c] = arg'[c]]_vars

\* C9 witness: a connection viewing W1 has joined W2
C9_Witness ==
    \E c \in Conns :
        /\ pc[c] \in {"join_bcast", "join_reply"}
        /\ departure[c].wb = "W1" /\ arg[c] = "W2"

\* C10: user_joined goes to every other viewer of the whiteboard and not to
\* the joining connection, its viewer list names the joining user and every
\* user viewing, and while its join is under way the joining connection is
\* sent nothing by it before the whiteboard_joined reply
C10_UserJoinedFanout ==
    /\ \A e \in sent :
          e.type = "user_joined" =>
              /\ e.origin \notin e.to
              /\ e.to = DictGet(whiteboard_viewers, e.wb) \ {e.origin}
              /\ user_id[e.origin] \in {v.id : v \in e.viewers}
              /\ \A x \in DictGet(whiteboard_viewers, e.wb) :
                    user_id[x] \in {v.id : v \in e.viewers}
    /\ \A c \in Conns :
          pc[c] \in {"join_bcast", "join_reply"} =>
              \A e \in sent : e.origin = c => c \notin e.to
    /\ \A e \in sent :
          (e.type = "whiteboard_joined") =>
              (e.to = {e.origin} /\ pc[e.origin] \in {"loop", "disc"})

\* C10 witness: user_joined about bob reached alice with both users listed
C10_Witness ==
    \E e \in sent :
        /\ e.type = "user_joined" /\ e.to # {}
        /\ {v.id : v \in e.viewers} = {"alice", "bob"}

\* C11: a leave_whiteboard of a connection viewing nothing changes no registry
\* state and the registry sends nothing (the handler's whiteboard_left reply is
\* all that is sent); otherwise the connection is removed from its
\* whiteboard's viewer set, its cursor is (0,0), its current_whiteboard_id is
\* cleared, and one user_left goes to exactly the viewers that remain, with a
\* viewer list computed after the removal
C11_LeaveWhiteboard ==
    [][\A c \in Conns :
          received' = Frame(c, "leave_whiteboard") =>
              /\ current_whiteboard_id[c] = None =>
                    (registry' = registry /\ sent' = {LeaveReplyEvent(c)})
              /\ \A w \in Whiteboards :
                    current_whiteboard_id[c] = w =>
                        /\ DictGet(whiteboard_viewers', w) = DictGet(whiteboard_viewers, w) \ {c}
                        /\ \A v \in Whiteboards \ {w} :
                              DictGet(whiteboard_viewers', v) = DictGet(whiteboard_viewers, v)
                        /\ cursor'[c] = Origin
                        /\ current_whiteboard_id'[c] = None
                        /\ \E e \in sent' :
                              /\ e.type = "user_left" /\ e.wb = w
                              /\ e.to = DictGet(whiteboard_viewers, w) \ {c}
                              /\ e.viewers \in get_whiteboard_viewers(w)'
                              /\ sent' = {e, LeaveReplyEvent(c)}]_vars

\* C11 witness: a connection has left a whiteboard and user_left reached the
\* viewer that stays
C11_Witness ==
    \E c \in Conns :
        /\ received = Frame(c, "leave_whiteboard")
        /\ \E e \in sent : e.type = "user_left" /\ e.to # {} /\ e.viewers # {}

\* C12: a cursor_move with numeric coordinates stores them on the connection;
\* a connection viewing a whiteboard causes one cursor_update carrying its user
\* id and the coordinates, sent to every other viewer and not to itself; a
\* connection viewing nothing causes no event
C12_UpdateCursor ==
    [][\A c \in Conns :
          received' = Frame(c, "cursor_move") =>
              \E xy \in CursorInputs :
                  /\ cursor'[c] = xy
                  /\ current_whiteboard_id[c] = None => sent' = {}
                  /\ \A w \in Whiteboards :
                        current_whiteboard_id[c] = w =>
                            \E e \in sent' :
                                /\ sent' = {e}
                                /\ e.type = "cursor_update" /\ e.wb = w
                                /\ e.to = DictGet(whiteboard_viewers, w) \ {c}
                                /\ c \notin e.to
                                /\ e.viewers = {[id |-> user_id[c], cursor |-> xy]}]_vars

\* C12 witness: a cursor_update reached another viewer
C12_Witness ==
    \E c \in Conns :
        /\ received = Frame(c, "cursor_move")
        /\ cursor[c] \in CursorInputs
        /\ \E e \in sent : e.type = "cursor_update" /\ e.to # {}

\* C13: while a connection that viewed A is joining a different whiteboard B,
\* all it sends is user_joined to viewers of B: no user_left is sent and the
\* viewers left behind on A receive nothing from it
C13_ImplicitLeaveSilent ==
    \A c \in Conns :
        (/\ pc[c] \in {"join_bcast", "join_reply"}
         /\ departure[c].wb # None
         /\ departure[c].wb # arg[c]) =>
            /\ emitted[c] \subseteq {"user_joined"}
            /\ \A e \in sent :
                  e.origin = c =>
                      /\ e.type = "user_joined"
                      /\ e.wb = arg[c]
                      /\ \A d \in e.to : current_whiteboard_id[d] = arg[c]

\* C13 witness: a connection has moved from W1, where a viewer stays behind,
\* to W2 and its user_joined has been issued
C13_Witness ==
    \E c \in Conns :
        /\ pc[c] = "join_reply"
        /\ departure[c].wb = "W1" /\ arg[c] = "W2"
        /\ departure[c].remaining # {}
        /\ \E e \in sent : e.origin = c /\ e.type = "user_joined"

\* the connections the registry holds as recipients of a broadcast
RegistryTargets(e) ==
    IF e.via = "whiteboard" THEN DictGet(whiteboard_viewers, e.wb) \ {e.exclude}
    ELSE IF e.via = "user" THEN UNION {DictGet(connections, u) : u \in e.users}
    ELSE {x \in Conns : Registered(x)} \ {e.exclude}

\* C14: every broadcast (to a whiteboard, to a user, to all) attempts every
\* recipient the registry holds, also when the transport of one of them
\* raises on send, and the broadcasting task goes on as it does after a
\* broadcast without failures
C14_SendFailureIsolated ==
    \A e \in sent :
        e.via \in {"whiteboard", "user", "all"} =>
            /\ e.to = RegistryTargets(e)
            /\ (e.to \cap FailedTransports # {} /\ e.origin # None) =>
                  /\ e.type \in {"user_joined"} => pc[e.origin] = "join_reply"
                  /\ e.type \in {"cursor_update", "note_position"} => pc[e.origin] = "loop"
                  /\ e.type = "user_left" => pc[e.origin] \in AfterReply
                  /\ e.type = "presence_update" =>
                        pc[e.origin] \in AfterConnect \cup {"closed", "closed_twice"}

\* C14 witness: a presence broadcast by a connection that goes on normally had
\* a recipient whose transport fails and another whose transport works
C14_Witness ==
    \E e \in sent :
        /\ e.via = "all" /\ e.origin # None /\ pc[e.origin] = "loop"
        /\ \E d \in e.to : d \in FailedTransports
        /\ \E x \in e.to : x \notin FailedTransports

\* C15: whatever the bus client does, also when its publish and subscribe
\* calls raise, the step of connect registers the connection under its user,
\* the step of join_whiteboard makes it a viewer of the whiteboard joined, the
\* step of update_cursor stores the position, and each operation goes on to
\* its normal continuation
C15_BusFailureTolerated ==
    [][\A c \in Conns :
          /\ received' = Frame(c, "auth") =>
                /\ user_id'[c] \in Users
                /\ c \in DictGet(connections', user_id'[c])
                /\ \A d \in Conns \ {c} : Registered(d)' <=> Registered(d)
                /\ pc'[c] \in {"conn_pres", "conn_fanout"} \cup AfterConnect
          /\ received' = Frame(c, "join_whiteboard") =>
                /\ arg'[c] \in Whiteboards
                /\ c \in DictGet(whiteboard_viewers', arg'[c])
                /\ current_whiteboard_id'[c] = arg'[c]
                /\ pc'[c] \in {"join_bcast", "join_reply"}
          /\ received' = Frame(c, "cursor_move") =>
                /\ cursor'[c] \in CursorInputs
                /\ pc'[c] = "loop"]_vars

\* C15 witness: with a bus client whose calls raise, a connection has been
\* registered, has joined a whiteboard and has stored a cursor position
C15_Witness ==
    \E c \in Conns :
        /\ client_raises
        /\ pc[c] = "loop" /\ Registered(c)
        /\ current_whiteboard_id[c] # None
        /\ cursor[c] \in CursorInputs

\* first frames that are not a frame of type auth
NotAuthFirstFrames == {"not_json", "not_object", "not_auth"}

\* a transport rejected in the handshake is not registered, has no handler on
\* the bridge, and no frame of it is taken afterwards
RejectedStaysOut(c) ==
    /\ pc'[c] = "rejected" =>
          /\ ~Registered(c)'
          /\ user_id'[c] = None
          /\ \A h \in BagToSet(handlers') : h.conn # c
    /\ pc[c] = "rejected" => (pc'[c] = "rejected" /\ received'.conn # c)

TokenFailures == {"bad_token", "no_sub", "bad_sub", "no_user"}

\* C17 (as claimed): every token verification failure is answered with error
\* invalid_token, and the transport is closed without being registered
C17_TokenFailureInvalidToken ==
    [][\A c \in Conns : \A f \in TokenFailures :
          received' = Frame(c, f) =>
              /\ sent' = {ErrorReply(c, "invalid_token")}
              /\ pc'[c] = "rejected"
              /\ ~Registered(c)']_vars

\* C17 (amended): a missing token and a token that does not decode are
\* answered with error invalid_token; a token without subject claim, with a
\* subject that is no identity, or with an identity not in the user store is
\* answered with no error frame; in each case the transport is closed without
\* being registered
C17_TokenFailureAmended ==
    [][\A c \in Conns :
          /\ \A f \in {"no_token", "bad_token"} :
                received' = Frame(c, f) => sent' = {ErrorReply(c, "invalid_token")}
          /\ \A f \in {"no_sub", "bad_sub", "no_user"} :
                received' = Frame(c, f) => sent' = {}
          /\ \A f \in TokenFailures \cup {"no_token"} :
                received' = Frame(c, f) =>
                    /\ pc'[c] = "rejected"
                    /\ ~Registered(c)'
                    /\ registry' = registry]_vars

\* C17 witness: a token for an identity not in the user store was refused
\* without an error frame while another connection is registered
C17_Witness ==
    \E c, d \in Conns :
        /\ received = Frame(c, "no_user") /\ pc[c] = "rejected"
        /\ sent = {}
        /\ Registered(d)

\* frames after the handshake that are malformed or of unknown type
MalformedFrames ==
    {"unknown_type", "join_missing_id", "join_malformed_id"} \cup IllShapedFrames

\* C18 (as claimed): every malformed or unknown frame after the handshake is
\* answered with a typed error frame, the connection stays registered, and
\* the endpoint leaves its receive loop only if sending that reply fails
C18_MalformedFrameKeepsConnection ==
    [][\A c \in Conns : \A f \in MalformedFrames :
          received' = Frame(c, f) =>
              /\ \E e \in sent' : e.type = "error" /\ e.to = {c} /\ e.code # None
              /\ pc'[c] \in AfterReply
              /\ Registered(c)']_vars

IgnoredFrames ==
    {"cursor_move_non_numeric", "note_position_missing_field", "note_position_non_numeric"}

\* C20: a cursor_move with non-numeric coordinates, a note_position with a
\* missing field or non-numeric coordinates, and a note_position from a
\* connection viewing nothing cause no reply, no broadcast and no change of
\* the registry, the bridge or the endpoint's position
C20_IgnoredFrames ==
    [][\A c \in Conns :
          (/\ received'.conn = c
           /\ \/ received'.kind \in IgnoredFrames
              \/ received'.kind = "note_position" /\ current_whiteboard_id[c] = None) =>
              /\ sent' = {}
              /\ registry' = registry
              /\ handlers' = handlers /\ subscriptions' = subscriptions
              /\ published' = published
              /\ pc' = pc]_vars

\* C20 witness: a viewer of a whiteboard that has another viewer sent a
\* note_position with non-numeric coordinates and nothing was sent
C20_Witness ==
    \E c, d \in Conns :
        /\ c # d
        /\ received = Frame(c, "note_position_non_numeric")
        /\ current_whiteboard_id[c] # None
        /\ current_whiteboard_id[d] = current_whiteboard_id[c]
        /\ sent = {}

\* C21 (as claimed): a note_position is forwarded to other viewers only for a
\* sender with read access to the whiteboard it is forwarded on
C21_NotePositionAccessControlled ==
    \A e \in sent :
        (e.type = "note_position" /\ e.to # {}) =>
            has_whiteboard_read_access(e.wb, user_id[e.origin])

\* C22: no key of either index maps to an empty set: every user id that is a
\* key has a registered connection of that user in its set, and every
\* whiteboard id that is a key has a connection viewing it in its set
C22_NoEmptySets ==
    /\ \A u \in DOMAIN connections :
          /\ connections[u] # {}
          /\ \E c \in Conns : user_id[c] = u /\ c \in connections[u]
    /\ \A w \in DOMAIN whiteboard_viewers :
          /\ whiteboard_viewers[w] # {}
          /\ \E c \in Conns : current_whiteboard_id[c] = w /\ c \in whiteboard_viewers[w]

\* C22 witness: the last session of a user was disconnected while it was the
\* only viewer of a whiteboard; both keys are gone and another user stays
\* registered
C22_Witness ==
    \E c, d \in Conns :
        /\ pc[c] = "closed" /\ departure[c].wb # None
        /\ departure[c].wb \notin DOMAIN whiteboard_viewers
        /\ user_id[c] \notin DOMAIN connections
        /\ Registered(d)

\* manager.connect has registered the connection and manager.disconnect has
\* not yet run its locked section for it
ConnectedNotDisconnected(c) ==
    pc[c] \in {"conn_pres", "conn_fanout", "loop", "join_bcast", "join_reply", "disc", "leaked"}

\* C23: a connection is in the set of user u exactly when its user id is u
\* and it has been connected and not yet disconnected; sessions of one user on
\* different transports are all members
C23_ConnectionMembership ==
    \A c \in Conns : \A u \in Users \cup DOMAIN connections :
        (c \in DictGet(connections, u)) <=> (user_id[c] = u /\ ConnectedNotDisconnected(c))

\* C23 witness: two sessions of alice, on different transports, are both
\* registered and in their receive loops
C23_Witness ==
    /\ DictGet(connections, "alice") = Conns
    /\ \A c \in Conns : pc[c] = "loop"

\* the step ends manager.connect(c) or a manager.disconnect(c)
PresenceBroadcastEnds(c) ==
    \/ pc[c] \in {"accept", "conn_pres", "conn_fanout"} /\ pc'[c] \in AfterConnect
    \/ pc[c] # pc'[c] /\ pc'[c] \in {"closed", "closed_twice"}

\* the task of c is inside manager.connect or manager.disconnect
InPresenceBroadcast(c) == pc[c] \in {"conn_pres", "conn_fanout", "disc_fanout", "redisc_fanout"}

\* the users with a registered connection
ConnectedUsers == {user_id[x] : x \in {y \in Conns : Registered(y)}}

\* C28: the step that ends a connect or a disconnect sends presence_update to
\* every connection registered at that moment, carrying one entry per user:
\* the users registered when the list was computed (before the bus publish,
\* if the task was suspended in it), whatever the bus publish did
C28_PresenceBroadcast ==
    [][\A c \in Conns :
          PresenceBroadcastEnds(c) =>
              \E e \in sent' :
                  /\ e.type = "presence_update" /\ e.via = "all" /\ e.origin = c
                  /\ e.to = {x \in Conns : Registered(x)'}
                  /\ e.users = IF InPresenceBroadcast(c) /\ pc[c] # "conn_pres"
                               THEN online_users[c] ELSE ConnectedUsers'
                  /\ e.users \subseteq Users]_vars

\* C28 witness: with a bus client whose publish raises, a presence_update
\* naming alice once went to both of her sessions
C28_Witness ==
    /\ client_raises
    /\ \E e \in sent :
          e.type = "presence_update" /\ e.to = Conns /\ e.users = {"alice"}
    /\ \A c \in Conns : user_id[c] = "alice"

\* C29 (as claimed): when no connect or disconnect is under way, the
\* presence_update just delivered to the registered connections, the last one
\* each of them received, lists exactly the users connected
C29_PresenceConverges ==
    (\A c \in Conns : pc[c] \in {"accept", "rejected", "loop", "leaked", "closed", "closed_twice"})
        => \A e \in sent : e.type = "presence_update" => e.users = ConnectedUsers

\* C24 (as claimed): a subject has an underlying bus subscription only while
\* it has at least one handler (removing the last handler, or all of them,
\* tears it down), and a subscribe that returns on a connected bridge leaves
\* the subject with its subscription
C24_SubscriptionLifecycle ==
    /\ \A subject \in subscriptions : HandlersOf(handlers, subject) # EmptyBag
    /\ (/\ bridge_call.op = "subscribe"
        /\ bridge_call.connected
        /\ bridge_call.returned = "normal") => bridge_call.subject \in subscriptions

\* C25: publish always returns normally to its caller: on a bridge that is
\* not connected it returns without calling the bus client and without
\* anything raising, and when serialising the payload or the bus client's
\* publish raises, the exception stays inside
C25_PublishNeverPropagates ==
    bridge_call.op = "publish" =>
        /\ bridge_call.returned = "normal"
        /\ ~bridge_call.connected => (~bridge_call.invoked /\ ~bridge_call.failed)

\* C25 witness: the bus client's publish raised and the call returned normally
C25_Witness ==
    /\ bridge_call.op = "publish"
    /\ bridge_call.connected /\ bridge_call.invoked /\ bridge_call.failed
    /\ bridge_call.returned = "normal"

\* C26 (as claimed): a publish made while the bus transport is down does not
\* call the bus client
C26_PublishWhileDisconnectedIsNoOp ==
    (bridge_call.op = "publish" /\ bridge_call.link = "down") =>
        (~bridge_call.invoked /\ bridge_call.returned = "normal")

\* C27: the response and the durable effect of a CRUD call depend on the
\* request alone: a permitted call answers with its success status and its
\* change is flushed and then committed, a refused one answers 403 without
\* change or broadcast, whatever the publish of the background task did
C27_CrudIndependentOfPublish ==
    request.op \in CrudOps =>
        IF CrudPermitted(request.op, request.user, request.wb)
        THEN /\ request.status = SuccessStatus[request.op]
             /\ request.effect \in {"flushed", "committed"}
             /\ request.task \in
                   IF CrudSubject(request.op, request.wb, request.access) = NoSubject
                   THEN {"none"} ELSE {"scheduled", "done"}
        ELSE /\ request.status = 403
             /\ request.effect = "none"
             /\ request.task = "none"
             /\ bridge_call = NoCall

\* C27 witness: a note was created and committed although the publish of its
\* background task raised inside the bridge
C27_Witness ==
    /\ request.op = "create_note" /\ request.status = 201
    /\ request.effect = "committed" /\ request.task = "done"
    /\ bridge_call.op = "publish" /\ bridge_call.failed

\* the permission of the share entry of a user, None without entry
ShareEntryPermission(shares, u) ==
    IF \E i \in DOMAIN shares : shares[i].user_id = u
    THEN shares[CHOOSE i \in DOMAIN shares : shares[i].user_id = u].permission
    ELSE None

\* C30: get_user_permission returns admin for the owner; otherwise write on a
\* public whiteboard; otherwise, on a shared one, the permission of the user's
\* share entry if there is one; otherwise None
C30_PermissionPolicy ==
    query.permission # "unset" =>
        query.permission =
            IF query.user_id = query.whiteboard.owner_id THEN "admin"
            ELSE IF query.whiteboard.access_type = "public" THEN "write"
            ELSE IF query.whiteboard.access_type = "shared"
                 THEN ShareEntryPermission(query.whiteboard.shared_with, query.user_id)
            ELSE None

\* C30 witness: on a private whiteboard with a share entry for the user, who
\* is not the owner, the result was None
C30_Witness ==
    /\ query.permission = None
    /\ query.whiteboard.access_type = "private"
    /\ query.whiteboard.owner_id # query.user_id
    /\ \E i \in DOMAIN query.whiteboard.shared_with :
          query.whiteboard.shared_with[i].user_id = query.user_id

\* the user has a read share on a shared whiteboard owned by someone else
ReadOnlyUser(u, w) ==
    /\ w \in DOMAIN WhiteboardStore
    /\ WhiteboardStore[w].owner_id # u
    /\ WhiteboardStore[w].access_type = "shared"
    /\ \E i \in DOMAIN WhiteboardStore[w].shared_with :
          /\ WhiteboardStore[w].shared_with[i].user_id = u
          /\ WhiteboardStore[w].shared_with[i].permission = "read"
          /\ \A j \in 1..(i - 1) : WhiteboardStore[w].shared_with[j].user_id # u

\* C31: for a user whose permission on a whiteboard is read, the read calls
\* answer 200, the note calls answer 403 with nothing changed and nothing
\* scheduled, and check_whiteboard_access grants read without require_write
\* and denies with it
C31_ReadOnlyUser ==
    /\ (request.op \in ReadOps \cup NoteOps /\ ReadOnlyUser(request.user, request.wb)) =>
          IF request.op \in ReadOps THEN request.status = 200
          ELSE /\ request.status = 403
               /\ request.effect = "none"
               /\ request.task = "none"
    /\ (query # NoQuery /\ ReadOnlyUser(query.user_id, query.whiteboard)) =>
          IF query.require_write
          THEN query.result = AccessResult(None, None, "write_required")
          ELSE query.result = AccessResult(query.whiteboard, "read", None)

\* C31 witness: the read-only user's create_note was refused and the check
\* with require_write denied
C31_Witness ==
    /\ request.op = "create_note" /\ request.user = "bob" /\ request.wb = "W2"
    /\ request.status = 403
    /\ query # NoQuery /\ query.user_id = "bob" /\ query.whiteboard = "W2"
    /\ query.require_write /\ query.result.error = "write_required"

\* the number of entries of a list that carry user id u
EntriesOf(list, ids, u) == Cardinality({i \in DOMAIN list : ids[i] = u})

\* C32: whatever the iteration order, the list of get_online_users has exactly
\* one entry for each user with a registered connection and none for anyone
\* else, and the list of get_whiteboard_viewers(w) exactly one entry for each
\* user with a connection viewing w and none for anyone else; the lists are
\* the ones the broadcasts carry
C32_SnapshotsDeduplicated ==
    /\ \A order \in IterationOrders(DOMAIN connections) :
          LET users == OnlineUsersLoop(order, {}, << >>)
          IN  /\ \A u \in Users :
                    EntriesOf(users, users, u) =
                        IF \E c \in Conns : Registered(c) /\ user_id[c] = u THEN 1 ELSE 0
              /\ {users[i] : i \in DOMAIN users} = get_online_users
    /\ \A w \in Whiteboards :
          /\ \A order \in IterationOrders(DictGet(whiteboard_viewers, w)) :
                LET viewers == ViewersLoop(order, {}, << >>)
                IN  /\ \A u \in Users :
                          EntriesOf(viewers, [i \in DOMAIN viewers |-> viewers[i].id], u) =
                              IF \E c \in Conns :
                                    /\ Registered(c) /\ user_id[c] = u
                                    /\ current_whiteboard_id[c] = w
                              THEN 1 ELSE 0
                    /\ {viewers[i] : i \in DOMAIN viewers} \in get_whiteboard_viewers(w)
          /\ \A l \in get_whiteboard_viewers(w) :
                \E order \in IterationOrders(DictGet(whiteboard_viewers, w)) :
                   LET viewers == ViewersLoop(order, {}, << >>)
                   IN  l = {viewers[i] : i \in DOMAIN viewers}

\* C32 witness: a user has two registered sessions, both viewing W1, with
\* different cursors
C32_Witness ==
    /\ Registered("c1") /\ Registered("c2") /\ user_id["c1"] = user_id["c2"]
    /\ current_whiteboard_id["c1"] = "W1" /\ current_whiteboard_id["c2"] = "W1"
    /\ cursor["c1"] # cursor["c2"]

\* C33: get_users_not_viewing_whiteboard(w) is the set of the user ids of the
\* registered connections minus the user ids of the connections in w's viewer
\* set, and a connected user is in it exactly when
\* is_user_viewing_whiteboard(u, w) is false
C33_NotViewingIsDifference ==
    \A w \in Whiteboards :
        /\ get_users_not_viewing_whiteboard(w) =
              {user_id[c] : c \in {x \in Conns : Registered(x)}}
                  \ {user_id[c] : c \in {x \in Conns : x \in DictGet(whiteboard_viewers, w)}}
        /\ \A u \in Users :
              (\E c \in Conns : Registered(c) /\ user_id[c] = u) =>
                  (u \in get_users_not_viewing_whiteboard(w)
                      <=> ~is_user_viewing_whiteboard(u, w))

\* C33 witness: a user has two sessions of which only one views W1, so the
\* user is connected, viewing W1 and not in the set
C33_Witness ==
    /\ Registered("c1") /\ Registered("c2") /\ user_id["c1"] = user_id["c2"]
    /\ current_whiteboard_id["c1"] = "W1" /\ current_whiteboard_id["c2"] # "W1"
    /\ user_id["c1"] \notin get_users_not_viewing_whiteboard("W1")

\* C34: a message that arrived on subject whiteboard.<w> was forwarded only to
\* connections whose current_whiteboard_id was w when it was forwarded, all of
\* them registered: never to one that had left w, switched or disconnected
C34_WhiteboardEventsFiltered ==
    \A e \in sent :
        (e.via = "bus" /\ e.wb # None) =>
            \A c \in e.to :
                /\ current_whiteboard_id[c] = e.wb
                /\ Registered(c)
                /\ ~Disconnected(c)

\* C34 witness: a message arrived on whiteboard.W1 and went to a viewer of W1
\* but not to a connection that had joined W1 and is not viewing it any more
C34_Witness ==
    \E e \in sent : \E c \in Conns :
        /\ e.via = "bus" /\ e.wb = "W1" /\ e.to # {}
        /\ Handler(whiteboard_subject("W1"), c, "W1") \in BagToSet(handlers)
        /\ current_whiteboard_id[c] # "W1"
        /\ c \notin e.to

\* C35: a frame of a connection is read only when the endpoint is back in its
\* receive loop, the handling of the previous frame finished (so a join's
\* user_joined and reply were sent before the next frame is read); a
\* cursor_move read while the connection views W updates the cursor and sends
\* cursor_update to the other viewers of W in that step
C35_FramesSequential ==
    [][frames' = frames + 1 =>
          LET c == received'.conn
          IN  /\ pc[c] = "loop"
              /\ arg[c] = None
              /\ (received'.kind = "cursor_move" /\ current_whiteboard_id[c] # None) =>
                    \E e \in sent' :
                       /\ e.type = "cursor_update" /\ e.origin = c
                       /\ e.wb = current_whiteboard_id[c]
                       /\ e.to = DictGet(whiteboard_viewers, current_whiteboard_id[c]) \ {c}]_vars

\* C35 witness: a connection that joined W1, where another one is viewing,
\* sent cursor_move next and its cursor_update went to the other viewer
C35_Witness ==
    \E c, d \in Conns : \E e \in sent :
        /\ c # d
        /\ received = Frame(c, "cursor_move")
        /\ current_whiteboard_id[c] = "W1" /\ current_whiteboard_id[d] = "W1"
        /\ e.type = "cursor_update" /\ e.origin = c /\ e.to = {d}
        /\ cursor[c] # Origin

\* how many times message_handler sends a message arriving now on subject to
\* connection c: once for every forwarding handler closed over c
Forwards(subject, c) ==
    LET fh == ForwardingHandlers(subject)
        hs == {h \in DOMAIN fh : h.conn = c}
    IN  BagCardinality([h \in hs |-> fh[h]])

\* C36 (as claimed): a message that arrived on subject whiteboard.<W> was
\* forwarded exactly once to every connection viewing W, whatever joins and
\* leaves the connection made before
C36_ForwardedExactlyOnce ==
    \A e \in sent :
        (e.via = "bus" /\ e.wb # None) =>
            \A c \in Conns :
                current_whiteboard_id[c] = e.wb =>
                    Forwards(whiteboard_subject(e.wb), c) = 1

\* C37 (as claimed): right after the locked section of join_whiteboard(c, W)
\* every viewer list of W that reports c's session reports its cursor as (0,0)
C37_JoinShowsOrigin ==
    \A c \in Conns :
        received = Frame(c, "join_whiteboard") =>
            \A l \in get_whiteboard_viewers(current_whiteboard_id[c]) :
                \A entry \in l :
                    entry = [id |-> user_id[c], cursor |-> cursor[c]] => entry.cursor = Origin

\* C38 (as claimed): when message_handler has finished with a message, every
\* handler that was registered from the beginning of the dispatch to its end
\* has been called, whatever was subscribed or unsubscribed meanwhile
C38_DispatchNotAborted ==
    dispatch.status \in {"done", "aborted"} =>
        \A h \in BagToSet(dispatch.stayed) :
            CopiesIn(h, dispatch.invoked) >= CopiesIn(h, dispatch.stayed)

\* C39: for every whiteboard snapshot and every user the copies of
\* get_user_permission in routers/notes.py and routers/whiteboards.py return
\* what the one in app/permissions.py returns, and the write checks of the two
\* routers agree
C39_CopiesAgree ==
    query.permission # "unset" =>
        /\ query.notes = query.permission
        /\ query.whiteboards = query.permission
        /\ query.can_write = query.notes_write
        /\ query.can_write = (query.permission \in {"write", "admin"})
        /\ query.can_admin = (query.permission = "admin")

\* C39 witness: the copies were compared on a public whiteboard for a user who
\* is not its owner but has a read share entry: all gave write
C39_Witness ==
    /\ query.permission = "write" /\ query.notes = "write" /\ query.whiteboards = "write"
    /\ query.whiteboard.access_type = "public"
    /\ query.whiteboard.owner_id # query.user_id
    /\ \E i \in DOMAIN query.whiteboard.shared_with :
          /\ query.whiteboard.shared_with[i].user_id = query.user_id
          /\ query.whiteboard.shared_with[i].permission = "read"

\* a registry operation of c's task has started and not returned
InRegistryOperation(c) == pc[c] \notin {"accept", "loop", "closed"}

\* C40: a task that holds the registry lock never waits for it, and every
\* registry operation that has started returns with the lock released by its
\* task
C40_NoLockDeadlock ==
    /\ [](\A c \in Conns : lock = c => pc[c] \notin LockWaiting)
    /\ \A c \in Conns :
          InRegistryOperation(c) ~> (~InRegistryOperation(c) /\ lock # c)

\* C40 witness: a task is in _leave_whiteboard_internal inside join_whiteboard,
\* holding the lock, while the other task waits for the lock to disconnect
C40_Witness ==
    \E c, d \in Conns :
        /\ pc[c] = "join_leave" /\ lock = c
        /\ pc[d] = "disc_wait"

====
